---- MODULE Spec2Model ----
(***************************************************************************)
(* Model of the superphenix-velero-plugin: the Kube-OVN network identity   *)
(* resolution (pkg/util) and the Velero BackupItemAction (pkg/plugin).     *)
(*                                                                         *)
(* Go strings are sequences of one-character strings, so that the string   *)
(* functions the code uses (HasSuffix, CutSuffix, Split, Join, Sprintf)    *)
(* are computed as Go computes them.  A Go error is the sequence of its    *)
(* layers, outermost first: fmt.Errorf with %w puts a layer in front of    *)
(* the wrapped error, fmt.Errorf without %w starts a new one-layer error,  *)
(* and the nil error is the empty sequence.                                *)
(***************************************************************************)
EXTENDS Integers, Sequences, FiniteSets, TLC

VARIABLES store, clientUp, op, arg, ret, frame, answers

vars == <<store, clientUp, op, arg, ret, frame, answers>>

(***************************************************************************)
(* Bounds                                                                  *)
(***************************************************************************)
MaxNets == 2

(***************************************************************************)
(* Go string functions (package strings, fmt)                              *)
(***************************************************************************)
HasSuffix(s, suffix) ==
    /\ Len(s) >= Len(suffix)
    /\ SubSeq(s, Len(s) - Len(suffix) + 1, Len(s)) = suffix

CutSuffix(s, suffix) ==
    IF HasSuffix(s, suffix)
    THEN [before |-> SubSeq(s, 1, Len(s) - Len(suffix)), found |-> TRUE]
    ELSE [before |-> s, found |-> FALSE]

RECURSIVE Split(_, _)
Split(s, sep) ==
    IF \A i \in 1..Len(s) : s[i] # sep
    THEN <<s>>
    ELSE LET i == CHOOSE k \in 1..Len(s) :
                      s[k] = sep /\ \A j \in 1..(k - 1) : s[j] # sep
         IN  <<SubSeq(s, 1, i - 1)>> \o Split(SubSeq(s, i + 1, Len(s)), sep)

RECURSIVE Join(_, _)
Join(elems, sep) ==
    IF Len(elems) = 0 THEN <<>>
    ELSE IF Len(elems) = 1 THEN elems[1]
    ELSE elems[1] \o <<sep>> \o Join(Tail(elems), sep)

(***************************************************************************)
(* Constants of pkg/util/kubeovn.go                                        *)
(***************************************************************************)
defaultNetworkAnnotation ==
    <<"o", "v", "n", ".", "k", "u", "b", "e", "r", "n", "e", "t", "e", "s", ".", "i", "o">>

\* "%s.%s"
defaultNetworkPattern(a, b) == a \o <<".">> \o b

\* A slip that leaves the ".ovn" of the pattern out.
nadNetworkPatternNoOvn(a, b, c, d) ==
    a \o <<".">> \o b \o <<".">> \o c \o <<".">> \o d

\* "%s.%s.%s.%s.ovn"
nadNetworkPattern(a, b, c, d) ==
    a \o <<".">> \o b \o <<".">> \o c \o <<".">> \o d \o <<".", "o", "v", "n">>

macAddressKey == <<"m", "a", "c", "_", "a", "d", "d", "r", "e", "s", "s">>
ipAddressKey == <<"i", "p", "_", "a", "d", "d", "r", "e", "s", "s">>

(***************************************************************************)
(* Errors                                                                  *)
(***************************************************************************)
NoErr == <<>>
NewErr(kind) == <<kind>>
Wrap(kind, err) == <<kind>> \o err
IsErr(err) == err # NoErr
\* errors.Is / errors.Unwrap chain: does err still carry a layer of this kind
Carries(err, kind) == \E i \in 1..Len(err) : err[i] = kind

(***************************************************************************)
(* Naming grammar                                                          *)
(***************************************************************************)
getIPNameForDefaultNetwork(vmName, vmNamespace) ==
    IF vmName = <<>> \/ vmNamespace = <<>>
    THEN [name |-> <<>>, err |-> NewErr("EmptyIdentity")]
    ELSE [name |-> defaultNetworkPattern(vmName, vmNamespace), err |-> NoErr]

\* A slip that looks at the VM's name and namespace only once the reference
\* is taken apart.
getIPNameForNADNetworkLateIdentity(nadAnnotation, vmName, vmNamespace) ==
    LET cut == CutSuffix(nadAnnotation, <<".">> \o defaultNetworkAnnotation)
    IN  IF ~cut.found
        THEN [name |-> <<>>, err |-> NewErr("InvalidReferenceSuffix")]
        ELSE LET split == Split(cut.before, ".")
             IN  IF Len(split) # 2
                 THEN [name |-> <<>>, err |-> NewErr("MalformedReference")]
                 ELSE IF vmName = <<>> \/ vmNamespace = <<>>
                 THEN [name |-> <<>>, err |-> NewErr("EmptyIdentity")]
                 ELSE IF vmNamespace # split[2]
                 THEN [name |-> <<>>, err |-> NewErr("NamespaceMismatch")]
                 ELSE [name |-> nadNetworkPattern(vmName, vmNamespace,
                                                  split[1], split[2]),
                       err |-> NoErr]

\* A slip that leaves the namespace of the reference unchecked.
getIPNameForNADNetworkAnyNamespace(nadAnnotation, vmName, vmNamespace) ==
    IF vmName = <<>> \/ vmNamespace = <<>>
    THEN [name |-> <<>>, err |-> NewErr("EmptyIdentity")]
    ELSE LET cut == CutSuffix(nadAnnotation, <<".">> \o defaultNetworkAnnotation)
         IN  IF ~cut.found
             THEN [name |-> <<>>, err |-> NewErr("InvalidReferenceSuffix")]
             ELSE LET split == Split(cut.before, ".")
                  IN  IF Len(split) # 2
                      THEN [name |-> <<>>, err |-> NewErr("MalformedReference")]
                      ELSE [name |-> nadNetworkPattern(vmName, vmNamespace,
                                                       split[1], split[2]),
                            err |-> NoErr]

getIPNameForNADNetwork(nadAnnotation, vmName, vmNamespace) ==
    IF vmName = <<>> \/ vmNamespace = <<>>
    THEN [name |-> <<>>, err |-> NewErr("EmptyIdentity")]
    ELSE LET cut == CutSuffix(nadAnnotation, <<".">> \o defaultNetworkAnnotation)
         IN  IF ~cut.found
             THEN [name |-> <<>>, err |-> NewErr("InvalidReferenceSuffix")]
             ELSE LET split == Split(cut.before, ".")
                  IN  IF Len(split) # 2
                      THEN [name |-> <<>>, err |-> NewErr("MalformedReference")]
                      ELSE IF vmNamespace # split[2]
                      THEN [name |-> <<>>, err |-> NewErr("NamespaceMismatch")]
                      ELSE [name |-> nadNetworkPattern(vmName, vmNamespace,
                                                       split[1], split[2]),
                            err |-> NoErr]

getIPCRNameForVM(nadAnnotation, vmName, vmNamespace) ==
    IF ~HasSuffix(nadAnnotation, defaultNetworkAnnotation)
    THEN [name |-> <<>>, err |-> NewErr("InvalidReferenceSuffix")]
    ELSE IF nadAnnotation = defaultNetworkAnnotation
    THEN getIPNameForDefaultNetwork(vmName, vmNamespace)
    ELSE getIPNameForNADNetwork(nadAnnotation, vmName, vmNamespace)

\* A slip that builds the reference as <namespace>.<name>.
NetworkNameToNadAnnotationSwapped(networkName) ==
    LET split == Split(networkName, "/")
    IN  IF Len(split) # 2
        THEN [nad |-> <<>>, err |-> NewErr("MalformedNetworkName")]
        ELSE [nad |-> split[1] \o <<".">> \o split[2] \o <<".">>
                        \o defaultNetworkAnnotation,
              err |-> NoErr]

NetworkNameToNadAnnotation(networkName) ==
    LET split == Split(networkName, "/")
    IN  IF Len(split) # 2
        THEN [nad |-> <<>>, err |-> NewErr("MalformedNetworkName")]
        ELSE [nad |-> split[2] \o <<".">> \o split[1] \o <<".">>
                        \o defaultNetworkAnnotation,
              err |-> NoErr]

(***************************************************************************)
(* Pointers and maps                                                       *)
(*                                                                         *)
(* A Go pointer is a sequence of length at most one: Nil is the nil        *)
(* pointer and Ptr(x) points to x.  A Go map[string]string is a function   *)
(* whose domain is its key set.                                            *)
(***************************************************************************)
Nil == <<>>
Ptr(x) == <<x>>
EmptyMap == [k \in {} |-> <<>>]
MapSet(m, key, value) ==
    [k \in DOMAIN m \cup {key} |-> IF k = key THEN value ELSE m[k]]

(***************************************************************************)
(* Record fetcher: the Kube-OVN clientset and its IPs().Get                *)
(*                                                                         *)
(* store is the set of IP custom resources of the cluster, as a function   *)
(* from resource name to [name, mac, v4, v6]; clientUp says whether        *)
(* GetKubeOvnClient can build a clientset.  calls is the log of what a     *)
(* call asked of the outside world, in order.                              *)
(***************************************************************************)
ClientCall == [call |-> "GetKubeOvnClient", name |-> <<>>]

\* A slip that writes the record instead of reading it.
UpdateCall(ipName) == [call |-> "Update", name |-> ipName]

GetCall(ipName) == [call |-> "Get", name |-> ipName]

GetKubeOvnClient(up) ==
    IF up THEN NoErr ELSE NewErr("StoreUnavailable")

\* A slip that answers from the record an earlier Get was answered with.
IPsGetCached(st, ipName) ==
    IF \E k \in 1..Len(answers) : answers[k].ip # Nil /\ answers[k].ip[1].name = ipName
    THEN [ip |-> answers[CHOOSE k \in 1..Len(answers) :
                            answers[k].ip # Nil /\ answers[k].ip[1].name = ipName].ip,
          err |-> NoErr]
    ELSE IF ipName \in DOMAIN st
    THEN [ip |-> Ptr(st[ipName]), err |-> NoErr]
    ELSE [ip |-> Nil, err |-> NewErr("RecordNotFound")]

\* client.KubeovnV1().IPs().Get(ctx, ipName, GetOptions{})
IPsGet(st, ipName) ==
    IF ipName \in DOMAIN st
    THEN [ip |-> Ptr(st[ipName]), err |-> NoErr]
    ELSE [ip |-> Nil, err |-> NewErr("RecordNotFound")]

\* A slip that fetches the record a second time.
GetIPByNameTwice(ipName, st) ==
    LET got == IPsGet(st, ipName.name)
    IN  IF IsErr(ipName.err)
        THEN [ip |-> Nil, err |-> Wrap("IPNameFailed", ipName.err),
              calls |-> <<ClientCall>>]
        ELSE IF IsErr(got.err)
        THEN [ip |-> Nil, err |-> Wrap("GetFailed", got.err),
              calls |-> <<ClientCall, GetCall(ipName.name), GetCall(ipName.name)>>]
        ELSE [ip |-> got.ip, err |-> NoErr,
              calls |-> <<ClientCall, GetCall(ipName.name), GetCall(ipName.name)>>]

\* GetIPForVM from the computed name on: ipName is the outcome [name, err]
\* of getIPCRNameForVM.
GetIPByName(ipName, st) ==
    LET got == IPsGet(st, ipName.name)
    IN  IF IsErr(ipName.err)
        THEN [ip |-> Nil, err |-> Wrap("IPNameFailed", ipName.err),
              calls |-> <<ClientCall>>]
        ELSE IF IsErr(got.err)
        THEN [ip |-> Nil, err |-> Wrap("GetFailed", got.err),
              calls |-> <<ClientCall, GetCall(ipName.name)>>]
        ELSE [ip |-> got.ip, err |-> NoErr,
              calls |-> <<ClientCall, GetCall(ipName.name)>>]

\* Returns [ip, err, calls], ip being a pointer to the IP resource.
GetIPForVM(nadAnnotation, vmName, vmNamespace, st, up) ==
    LET clientErr == GetKubeOvnClient(up)
    IN  IF IsErr(clientErr)
        THEN [ip |-> Nil, err |-> Wrap("ClientFailed", clientErr),
              calls |-> <<ClientCall>>]
        ELSE GetIPByName(getIPCRNameForVM(nadAnnotation, vmName, vmNamespace), st)

\* GetIPsForDefaultNetwork from the outcome r of GetIPForVM on.
DefaultNetworkIPs(r) ==
    IF IsErr(r.err)
    THEN [ips |-> <<>>, err |-> Wrap("DefaultNetworkFailed", r.err),
          calls |-> r.calls]
    ELSE [ips |-> <<r.ip[1]>>, err |-> NoErr, calls |-> r.calls]

GetIPsForDefaultNetwork(vmName, vmNamespace, st, up) ==
    DefaultNetworkIPs(GetIPForVM(defaultNetworkAnnotation, vmName, vmNamespace, st, up))

(***************************************************************************)
(* Annotation builder                                                      *)
(***************************************************************************)
\* A slip that joins both address fields, empty or not.
IPToNetInfoJoinBoth(nadAnnotation, ip) ==
    [NADAnnotation |-> nadAnnotation, MAC |-> ip.mac,
     IPs |-> Join(<<ip.v4, ip.v6>>, ",")]

IPToNetInfo(nadAnnotation, ip) ==
    LET ips1 == IF ip.v4 # <<>> THEN <<ip.v4>> ELSE <<>>
        ips2 == IF ip.v6 # <<>> THEN Append(ips1, ip.v6) ELSE ips1
    IN  [NADAnnotation |-> nadAnnotation, MAC |-> ip.mac, IPs |-> Join(ips2, ",")]

\* A slip that publishes the reference itself as a third entry.
ToAnnotationsWithRef(n) ==
    MapSet(MapSet(MapSet(EmptyMap, n.NADAnnotation, n.MAC),
                  n.NADAnnotation \o <<"/">> \o macAddressKey, n.MAC),
           n.NADAnnotation \o <<"/">> \o ipAddressKey, n.IPs)

ToAnnotations(n) ==
    MapSet(MapSet(EmptyMap, n.NADAnnotation \o <<"/">> \o macAddressKey, n.MAC),
           n.NADAnnotation \o <<"/">> \o ipAddressKey, n.IPs)

(***************************************************************************)
(* Attachment enumerator                                                   *)
(*                                                                         *)
(* A VirtualMachine is [name, namespace, status, template], template being *)
(* a pointer to [annotations, networks]; a Network is [pod, multus], pod   *)
(* saying whether the Pod pointer is set and multus being a pointer to     *)
(* [networkName, default].                                                 *)
(*                                                                         *)
(* The loop state of GetIPsForVM is [ips, nads, multusIsPrimary,           *)
(* explicitPodNetwork, err, calls]; a step that fails sets err, and the    *)
(* loop returns at the first step that does.                               *)
(***************************************************************************)
\* A slip that appends the default network's records without their reference.
AppendDefaultNoRef(acc, r) ==
    IF IsErr(r.err)
    THEN [acc EXCEPT !.err = r.err, !.calls = @ \o r.calls]
    ELSE [acc EXCEPT !.ips = @ \o r.ips, !.calls = @ \o r.calls]

\* if network.Pod != nil { ... }
\* ips = append(ips, defaultIPs...); nads = append(nads, defaultNetworkAnnotation),
\* or the return of the error: r is the outcome of GetIPsForDefaultNetwork.
AppendDefault(acc, r) ==
    IF IsErr(r.err)
    THEN [acc EXCEPT !.err = r.err, !.calls = @ \o r.calls]
    ELSE [acc EXCEPT !.ips = @ \o r.ips,
                     !.nads = Append(@, defaultNetworkAnnotation),
                     !.calls = @ \o r.calls]

PodStep(acc, network, vm, st, up) ==
    IF ~network.pod THEN acc
    ELSE AppendDefault([acc EXCEPT !.explicitPodNetwork = TRUE],
                       GetIPsForDefaultNetwork(vm.name, vm.namespace, st, up))

\* A slip that records the default reference for a multus network.
AppendNadAsDefault(acc, nadAnnotation, r) ==
    IF IsErr(r.err)
    THEN [acc EXCEPT !.err = r.err, !.calls = @ \o r.calls]
    ELSE [acc EXCEPT !.ips = Append(@, r.ip[1]),
                     !.nads = Append(@, defaultNetworkAnnotation),
                     !.calls = @ \o r.calls]

\* ips = append(ips, ip); nads = append(nads, nadAnnotation), or the return of
\* the error: r is the outcome of GetIPForVM.
AppendNad(acc, nadAnnotation, r) ==
    IF IsErr(r.err)
    THEN [acc EXCEPT !.err = r.err, !.calls = @ \o r.calls]
    ELSE [acc EXCEPT !.ips = Append(@, r.ip[1]),
                     !.nads = Append(@, nadAnnotation),
                     !.calls = @ \o r.calls]

\* The multus branch from the outcome conv of NetworkNameToNadAnnotation on.
MultusLookup(acc, conv, vm, st, up) ==
    IF IsErr(conv.err)
    THEN [acc EXCEPT !.err = Wrap("InvalidNetworkName", conv.err)]
    ELSE AppendNad(acc, conv.nad,
                   GetIPForVM(conv.nad, vm.name, vm.namespace, st, up))

\* A slip that rejects a second default-flagged multus network.
MultusStepOnePrimary(acc, network, vm, st, up) ==
    IF IsErr(acc.err) \/ network.multus = Nil THEN acc
    ELSE IF acc.multusIsPrimary /\ network.multus[1].default
    THEN [acc EXCEPT !.err = NewErr("PrimaryConflict")]
    ELSE MultusLookup(
             [acc EXCEPT !.multusIsPrimary = @ \/ network.multus[1].default],
             NetworkNameToNadAnnotation(network.multus[1].networkName),
             vm, st, up)

\* A slip that lets the last multus network decide whether one is primary.
MultusStepLastDecides(acc, network, vm, st, up) ==
    IF IsErr(acc.err) \/ network.multus = Nil THEN acc
    ELSE MultusLookup(
             [acc EXCEPT !.multusIsPrimary = network.multus[1].default],
             NetworkNameToNadAnnotation(network.multus[1].networkName),
             vm, st, up)

\* if network.Multus != nil { ... }; not reached when the pod branch of the
\* same network has returned an error.
MultusStep(acc, network, vm, st, up) ==
    IF IsErr(acc.err) \/ network.multus = Nil THEN acc
    ELSE MultusLookup(
             [acc EXCEPT !.multusIsPrimary = @ \/ network.multus[1].default],
             NetworkNameToNadAnnotation(network.multus[1].networkName),
             vm, st, up)

\* What GetIPsForVM returns when the loop state is acc: return nil, nil, err
\* or return ips, nads, nil.
LoopResult(acc) ==
    IF IsErr(acc.err)
    THEN [ips |-> <<>>, nads |-> <<>>, err |-> acc.err, calls |-> acc.calls,
          panic |-> FALSE]
    ELSE [ips |-> acc.ips, nads |-> acc.nads, err |-> NoErr,
          calls |-> acc.calls, panic |-> FALSE]

\* return ips, []string{defaultNetworkAnnotation}, err: r is the outcome of
\* GetIPsForDefaultNetwork.
DefaultOnlyResult(r, nads) ==
    [ips |-> r.ips, nads |-> nads, err |-> r.err, calls |-> r.calls,
     panic |-> FALSE]

\* A slip that returns no attachment reference with the default network's IP.
DefaultNetworkOnlyNoRef(vm, st, up) ==
    DefaultOnlyResult(GetIPsForDefaultNetwork(vm.name, vm.namespace, st, up),
                      <<>>)

\* if len(vm.Spec.Template.Spec.Networks) == 0 { ... }
DefaultNetworkOnly(vm, st, up) ==
    DefaultOnlyResult(GetIPsForDefaultNetwork(vm.name, vm.namespace, st, up),
                      <<defaultNetworkAnnotation>>)

\* Slips in the condition of the implicit default network: injected whatever
\* the flags, injected unless the pod network is declared, never injected.
InjectDefaultWhen(cond, acc, vm, st, up) ==
    IF cond
    THEN LoopResult(AppendDefault(acc,
             GetIPsForDefaultNetwork(vm.name, vm.namespace, st, up)))
    ELSE LoopResult(acc)

InjectDefaultAlways(acc, vm, st, up) == InjectDefaultWhen(TRUE, acc, vm, st, up)

InjectDefaultUnlessPod(acc, vm, st, up) ==
    InjectDefaultWhen(~acc.explicitPodNetwork, acc, vm, st, up)

InjectDefaultNever(acc, vm, st, up) == InjectDefaultWhen(FALSE, acc, vm, st, up)

\* if !multusIsPrimary && !explicitPodNetwork { ... }; return ips, nads, nil
InjectDefault(acc, vm, st, up) ==
    IF ~acc.multusIsPrimary /\ ~acc.explicitPodNetwork
    THEN LoopResult(AppendDefault(acc,
             GetIPsForDefaultNetwork(vm.name, vm.namespace, st, up)))
    ELSE LoopResult(acc)

(***************************************************************************)
(* A lookup reads the outside world at two instants: GetKubeOvnClient      *)
(* reads the kubeconfig, and the Get that follows it blocks until the API  *)
(* server answers from the store; the cluster goes on in between, and      *)
(* between two lookups.  The position of a call of GetIPsForVM is a frame  *)
(* [call, vm, acc, i, client, out]: call is the function the caller called *)
(* (GetIPsForVM, or one that goes through it), acc the loop state, i the   *)
(* branch of the loop body that comes next (2n - 1 is the pod branch of    *)
(* network n and 2n its multus branch; past them the loop is over), client *)
(* a pointer to what GetKubeOvnClient found while the call waits in Get,   *)
(* Nil otherwise, and out a pointer to what GetIPsForVM has returned, Nil  *)
(* as long as it has not.                                                  *)
(***************************************************************************)
\* GetIPsForVM up to its first lookup: the read of vm.Spec.Template is a nil
\* dereference when the VM has no template.
EnterGetIPsForVM(call, vm) ==
    [call |-> call, vm |-> vm,
     acc |-> [ips |-> <<>>, nads |-> <<>>, multusIsPrimary |-> FALSE,
              explicitPodNetwork |-> FALSE, err |-> NoErr, calls |-> <<>>],
     i |-> 1,
     client |-> Nil,
     out |-> IF vm.template = Nil
             THEN Ptr([ips |-> <<>>, nads |-> <<>>, err |-> NoErr,
                       calls |-> <<>>, panic |-> TRUE])
             ELSE Nil]

\* A slip that goes on with the next networks after a failure.
LoopStepToTheEnd(f, acc) == [f EXCEPT !.acc = acc, !.i = @ + 1]

\* The end of a branch of the loop body that left the loop state acc:
\* return nil, nil, err, or the next branch.
LoopStep(f, acc) ==
    IF IsErr(acc.err)
    THEN [f EXCEPT !.acc = acc, !.out = Ptr(LoopResult(acc))]
    ELSE [f EXCEPT !.acc = acc, !.i = @ + 1]

\* The calls of frame f so far.
CallsOfFrame(f) == IF f.out = Nil THEN f.acc.calls ELSE f.out[1].calls

\* The next piece of GetIPsForVM at frame f: the lookup of the empty list,
\* if network.Pod != nil { ... } or if network.Multus != nil { ... } of a
\* pass of the loop, or what comes after the loop.  The kubeconfig answers
\* up and the store st.
Branch(f, st, up) ==
    IF Len(f.vm.template[1].networks) = 0
    THEN [f EXCEPT !.out = Ptr(DefaultNetworkOnly(f.vm, st, up))]
    ELSE IF f.i > 2 * Len(f.vm.template[1].networks)
    THEN [f EXCEPT !.out = Ptr(InjectDefault(f.acc, f.vm, st, up))]
    ELSE IF f.i % 2 = 1
    THEN LoopStep(f, PodStep(f.acc, f.vm.template[1].networks[(f.i + 1) \div 2],
                             f.vm, st, up))
    ELSE LoopStep(f, MultusStep(f.acc, f.vm.template[1].networks[f.i \div 2],
                                f.vm, st, up))

\* GetIPsForVM from frame f up to its next lookup included, or to its
\* return: the branches that look nothing up are passed over.
RECURSIVE GetIPsForVM(_, _, _)
UpToLookup(f, g, st, up) ==
    IF g.out # Nil \/ CallsOfFrame(g) # CallsOfFrame(f) THEN g
    ELSE GetIPsForVM(g, st, up)

GetIPsForVM(f, st, up) == UpToLookup(f, Branch(f, st, up), st, up)

\* A call of GetIPForVM by itself has a frame too.
EnterGetIPForVM(nadAnnotation, vmName, vmNamespace) ==
    [call |-> "GetIPForVM", nadAnnotation |-> nadAnnotation,
     vmName |-> vmName, vmNamespace |-> vmNamespace,
     acc |-> [calls |-> <<>>], client |-> Nil, out |-> Nil]

\* The call of frame f up to its next lookup included, or to its return.
Proceed(f, st, up) ==
    IF f.call = "GetIPForVM"
    THEN [f EXCEPT !.out = Ptr(GetIPForVM(f.nadAnnotation, f.vmName,
                                          f.vmNamespace, st, up))]
    ELSE GetIPsForVM(f, st, up)

\* Returns [netInfos, err, calls, panic]; panic is a nil dereference in
\* GetIPsForVM or an index out of range in nads[i].
\* GetNetInfoForVm from the outcome r of GetIPsForVM on.
NetInfos(r) ==
    IF r.panic
    THEN [netInfos |-> <<>>, err |-> NoErr, calls |-> r.calls, panic |-> TRUE]
    ELSE IF IsErr(r.err)
    THEN [netInfos |-> <<>>, err |-> NewErr("NetInfoFailed"),
          calls |-> r.calls, panic |-> FALSE]
    ELSE IF Len(r.nads) < Len(r.ips)
    THEN [netInfos |-> <<>>, err |-> NoErr, calls |-> r.calls, panic |-> TRUE]
    ELSE [netInfos |-> [i \in 1..Len(r.ips) |-> IPToNetInfo(r.nads[i], r.ips[i])],
          err |-> NoErr, calls |-> r.calls, panic |-> FALSE]

(***************************************************************************)
(* Resolution facade                                                       *)
(***************************************************************************)
\* for k, v := range anns { annotations[k] = v }
MergeAnnotations(annotations, anns) ==
    [k \in DOMAIN annotations \cup DOMAIN anns |->
        IF k \in DOMAIN anns THEN anns[k] ELSE annotations[k]]

RECURSIVE FoldAnnotations(_, _, _)
FoldAnnotations(annotations, netInfo, i) ==
    IF i > Len(netInfo) THEN annotations
    ELSE FoldAnnotations(MergeAnnotations(annotations, ToAnnotations(netInfo[i])),
                         netInfo, i + 1)

\* GetKubeovnAnnotationsForVM from the outcome r of GetNetInfoForVm on.
Annotations(r) ==
    IF r.panic
    THEN [annotations |-> EmptyMap, isNil |-> TRUE, err |-> NoErr,
          calls |-> r.calls, panic |-> TRUE]
    ELSE IF IsErr(r.err)
    THEN [annotations |-> EmptyMap, isNil |-> TRUE,
          err |-> Wrap("AnnotationsFailed", r.err),
          calls |-> r.calls, panic |-> FALSE]
    ELSE [annotations |-> FoldAnnotations(EmptyMap, r.netInfos, 1),
          isNil |-> FALSE, err |-> NoErr, calls |-> r.calls, panic |-> FALSE]

\* A slip that builds the client before looking at the VM.
GetKubeovnAnnotationsForVMClientFirst(vm) ==
    IF vm = Nil
    THEN Ptr([annotations |-> EmptyMap, isNil |-> TRUE,
              err |-> NewErr("InvalidInput"), calls |-> <<ClientCall>>,
              panic |-> FALSE])
    ELSE Nil

\* if vm == nil { return nil, fmt.Errorf("VM object is nil") }: vm is a
\* pointer; a pointer to what is returned at once, Nil when the call goes on
\* to GetNetInfoForVm.  A return is [annotations, isNil, err, calls, panic];
\* isNil says that the returned map is the nil map.
GetKubeovnAnnotationsForVM(vm) ==
    IF vm = Nil
    THEN Ptr([annotations |-> EmptyMap, isNil |-> TRUE,
              err |-> NewErr("InvalidInput"), calls |-> <<>>,
              panic |-> FALSE])
    ELSE Nil

\* What the function the caller called returns once GetIPsForVM, or
\* GetIPForVM called by itself, has returned r.
Outcome(call, r) ==
    IF call \in {"GetIPsForVM", "GetIPForVM"} THEN r
    ELSE IF call = "GetNetInfoForVm" THEN NetInfos(r)
    ELSE Annotations(NetInfos(r))

(***************************************************************************)
(* The backup item action (pkg/plugin)                                     *)
(*                                                                         *)
(* A Backup is seen through the predicates of the kubevirt-velero-plugin   *)
(* the action consults: [vmiIn, podsIn, pvcIn] are IsResourceInBackup for  *)
(* virtualmachineinstances, pods and persistentvolumeclaims, metadata is   *)
(* IsMetadataBackup.  excluded and restore are the outcomes [value, err]   *)
(* of isVMIExcludedByLabel and RestorePossible, were they called.          *)
(***************************************************************************)
LabelCall == [call |-> "isVMIExcludedByLabel", name |-> <<>>]

\* A slip that leaves out the check of pods against persistentvolumeclaims.
canBeSafelyBackedUpWithoutPodCheck(vm, backup, excluded) ==
    LET isRunning == vm.status = "Starting" \/ vm.status = "Running"
    IN  IF ~isRunning
        THEN [safe |-> TRUE, err |-> NoErr, calls |-> <<>>]
        ELSE IF ~backup.vmiIn
        THEN [safe |-> FALSE, err |-> NoErr, calls |-> <<>>]
        ELSE IF IsErr(excluded.err)
        THEN [safe |-> FALSE, err |-> Wrap("WithStack", excluded.err),
              calls |-> <<LabelCall>>]
        ELSE IF excluded.value
        THEN [safe |-> FALSE, err |-> NoErr, calls |-> <<LabelCall>>]
        ELSE [safe |-> TRUE, err |-> NoErr, calls |-> <<LabelCall>>]

\* Returns [safe, err, calls].
canBeSafelyBackedUp(vm, backup, excluded) ==
    LET isRunning == vm.status = "Starting" \/ vm.status = "Running"
    IN  IF ~isRunning
        THEN [safe |-> TRUE, err |-> NoErr, calls |-> <<>>]
        ELSE IF ~backup.vmiIn
        THEN [safe |-> FALSE, err |-> NoErr, calls |-> <<>>]
        ELSE IF IsErr(excluded.err)
        THEN [safe |-> FALSE, err |-> Wrap("WithStack", excluded.err),
              calls |-> <<LabelCall>>]
        ELSE IF excluded.value
        THEN [safe |-> FALSE, err |-> NoErr, calls |-> <<LabelCall>>]
        ELSE IF ~backup.podsIn /\ backup.pvcIn
        THEN [safe |-> FALSE, err |-> NoErr, calls |-> <<LabelCall>>]
        ELSE [safe |-> TRUE, err |-> NoErr, calls |-> <<LabelCall>>]

\* A slip that builds the template's annotations anew instead of keeping them.
ReturnedItemFreshAnnotations(vm) ==
    IF vm.template = Nil THEN Ptr(vm)
    ELSE Ptr([vm EXCEPT !.template =
                 Ptr([annotations |-> EmptyMap,
                      networks |-> vm.template[1].networks])])

\* vmUnstructured := ToUnstructured(vm); &unstructured.Unstructured{Object: vmUnstructured}
ReturnedItem(vm) == Ptr(vm)

\* A slip that runs the safety check before looking at the backup: with no
\* backup a stopped VM is returned, a running one is a nil dereference.
ExecuteNilBackupUnchecked(item, backup, excluded, restore) ==
    IF item.status = "Starting" \/ item.status = "Running"
    THEN [item |-> Nil, err |-> NoErr, calls |-> <<>>, panic |-> TRUE]
    ELSE [item |-> ReturnedItem(item), err |-> NoErr, calls |-> <<>>,
          panic |-> FALSE]

\* item is the VirtualMachine the unstructured item converts to, backup a
\* pointer.  Returns [item, err, calls, panic]: item is a pointer to the
\* VirtualMachine of the returned item, panic the nil dereference of
\* vm.Spec.Template.
Execute(item, backup, excluded, restore) ==
    LET vm == item
        safe == canBeSafelyBackedUp(vm, backup[1], excluded)
    IN  IF backup = Nil
        THEN [item |-> Nil, err |-> NewErr("BackupNil"), calls |-> <<>>,
              panic |-> FALSE]
        ELSE IF IsErr(safe.err)
        THEN [item |-> Nil, err |-> Wrap("WithStack", safe.err),
              calls |-> safe.calls, panic |-> FALSE]
        ELSE IF ~safe.safe
        THEN [item |-> Nil, err |-> NewErr("NotSafe"), calls |-> safe.calls,
              panic |-> FALSE]
        ELSE IF ~backup[1].metadata /\ vm.template = Nil
        THEN [item |-> Nil, err |-> NoErr, calls |-> safe.calls, panic |-> TRUE]
        ELSE IF ~backup[1].metadata /\ IsErr(restore.err)
        THEN [item |-> Nil, err |-> Wrap("WithStack", restore.err),
              calls |-> safe.calls, panic |-> FALSE]
        ELSE IF ~backup[1].metadata /\ ~restore.value
        THEN [item |-> Nil, err |-> NewErr("NotRestorable"),
              calls |-> safe.calls, panic |-> FALSE]
        ELSE [item |-> ReturnedItem(vm), err |-> NoErr, calls |-> safe.calls,
              panic |-> FALSE]

(***************************************************************************)
(* Inputs                                                                  *)
(***************************************************************************)
VmName == <<"v", "m">>
Ns == <<"n", "s">>
OtherNs == <<"o", "s">>

\* Multus network names: two NADs of the VM's namespace, a NAD of another
\* namespace, and a name without namespace.
NetworkNames ==
    { Ns \o <<"/", "a">>, Ns \o <<"/", "b">>, OtherNs \o <<"/", "a">>, <<"a">> }

PodNetwork == [pod |-> TRUE, multus |-> Nil]
MultusNetwork(networkName, default) ==
    [pod |-> FALSE, multus |-> Ptr([networkName |-> networkName, default |-> default])]

\* A NAD of the VM's namespace may be flagged as the default interface.
Networks ==
    {PodNetwork}
    \cup {MultusNetwork(n, FALSE) : n \in NetworkNames}
    \cup {MultusNetwork(Ns \o <<"/", nad>>, TRUE) : nad \in {"a", "b"}}

NetworkLists == UNION {[1..n -> Networks] : n \in 0..MaxNets}

Template(annotations, networks) ==
    Ptr([annotations |-> annotations, networks |-> networks])

VM(name, networks) ==
    [name |-> name, namespace |-> Ns, status |-> "Stopped",
     template |-> Template(EmptyMap, networks)]

\* VM vm/ns with every list of networks, a VM without name, and a VM
\* without template.
VMs ==
    {VM(VmName, l) : l \in NetworkLists}
    \cup {VM(<<>>, l) : l \in {<<>>, <<PodNetwork>>,
                               <<MultusNetwork(Ns \o <<"/", "a">>, FALSE)>>}}
    \cup {[name |-> VmName, namespace |-> Ns, status |-> "Stopped", template |-> Nil]}

\* The IP custom resources the cluster may hold: the default network's and
\* the two NADs' of VM vm/ns.  The default network's comes in two versions.
IPNames ==
    { VmName \o <<".">> \o Ns,
      VmName \o <<".">> \o Ns \o <<".", "a", ".">> \o Ns \o <<".", "o", "v", "n">>,
      VmName \o <<".">> \o Ns \o <<".", "b", ".">> \o Ns \o <<".", "o", "v", "n">> }

IPTag(ipName) ==
    IF Len(ipName) = Len(VmName) + 1 + Len(Ns) THEN "d" ELSE ipName[Len(ipName) - 7]

IPResource(ipName, version) ==
    IF version = 1
    THEN [name |-> ipName, mac |-> <<"m", IPTag(ipName)>>,
          v4 |-> <<"4", IPTag(ipName)>>, v6 |-> <<>>]
    ELSE [name |-> ipName, mac |-> <<"n", IPTag(ipName)>>,
          v4 |-> <<"5", IPTag(ipName)>>, v6 |-> <<"6", IPTag(ipName)>>]

Versions(ipName) ==
    IF ipName = VmName \o <<".">> \o Ns THEN {1, 2} ELSE {1}

\* Inputs of Execute.  Annotations already on the VM template: none, a
\* foreign key, and a foreign key with a stale MAC of the default network.
ForeignAnnotations == MapSet(EmptyMap, <<"x">>, <<"p">>)
StaleAnnotations ==
    MapSet(ForeignAnnotations,
           defaultNetworkAnnotation \o <<"/">> \o macAddressKey, <<"o">>)
AnnotationSets == {EmptyMap, ForeignAnnotations, StaleAnnotations}

ExecNetworkLists ==
    { <<>>,
      <<PodNetwork>>,
      <<MultusNetwork(Ns \o <<"/", "a">>, FALSE)>>,
      <<MultusNetwork(Ns \o <<"/", "a">>, TRUE)>>,
      <<MultusNetwork(Ns \o <<"/", "a">>, FALSE), MultusNetwork(Ns \o <<"/", "b">>, FALSE)>>,
      <<PodNetwork, MultusNetwork(Ns \o <<"/", "a">>, FALSE)>>,
      <<MultusNetwork(OtherNs \o <<"/", "a">>, FALSE)>>,
      <<MultusNetwork(<<"a">>, FALSE)>> }

ExecVM(annotations, networks, status) ==
    [name |-> VmName, namespace |-> Ns, status |-> status,
     template |-> Template(annotations, networks)]

Backups ==
    {Nil} \cup {Ptr([vmiIn |-> v, podsIn |-> p, pvcIn |-> c, metadata |-> m]) :
                    v \in BOOLEAN, p \in BOOLEAN, c \in BOOLEAN, m \in BOOLEAN}

Outcomes ==
    {[value |-> b, err |-> NoErr] : b \in BOOLEAN}
    \cup {[value |-> FALSE, err |-> NewErr("ExternalFailure")]}

\* Every VM with a backup that passes the checks, and one VM with every
\* backup, status and outcome of the checks.
ExecInputs ==
    {[item |-> vm, backup |-> Ptr([vmiIn |-> TRUE, podsIn |-> TRUE,
                                   pvcIn |-> TRUE, metadata |-> m]),
      excluded |-> [value |-> FALSE, err |-> NoErr],
      restore |-> [value |-> TRUE, err |-> NoErr]] :
        vm \in {ExecVM(a, l, st) : a \in AnnotationSets, l \in ExecNetworkLists,
                                   st \in {"Stopped", "Running"}}
               \cup {[name |-> VmName, namespace |-> Ns, status |-> "Stopped",
                      template |-> Nil]},
        m \in BOOLEAN}
    \cup
    {[item |-> ExecVM(ForeignAnnotations, <<>>, st), backup |-> b,
      excluded |-> e, restore |-> r] :
        st \in {"Stopped", "Starting", "Running"}, b \in Backups,
        e \in Outcomes, r \in Outcomes}

\* Inputs of the naming grammar.  VM names and namespaces, with and without
\* dots, and empty.
NamingVmNames == {VmName, <<"v", ".", "m">>, <<>>}
NamingNamespaces == {Ns, OtherNs, <<"n", ".", "s">>, <<>>}
NadNames == {<<"a">>, <<"b">>, <<"a", ".", "b">>, <<>>}

\* Attachment references: the default one, well-formed secondary ones, and
\* malformed ones (a component missing or in excess, no dot before the
\* suffix, another suffix, the empty string).
NadAnnotations ==
    {defaultNetworkAnnotation}
    \cup {n \o <<".">> \o ns \o <<".">> \o defaultNetworkAnnotation :
             n \in {<<"a">>, <<"b">>, <<>>}, ns \in {Ns, OtherNs}}
    \cup { <<"a", ".">> \o defaultNetworkAnnotation,
           <<"a", ".", "b", ".">> \o Ns \o <<".">> \o defaultNetworkAnnotation,
           <<"a", ".", "n", ".", "s", ".">> \o defaultNetworkAnnotation,
           <<"x">> \o defaultNetworkAnnotation,
           <<"a", ".">> \o Ns \o <<".", "i", "o">>,
           <<>> }

\* Network names: namespace/name, and strings with no slash, two slashes or
\* an empty component.
NetworkNameInputs ==
    {ns \o <<"/">> \o n : ns \in NamingNamespaces, n \in NadNames}
    \cup {<<"a">>, <<>>, Ns \o <<"/", "a", "/", "b">>}

\* Inputs of the annotation builder: records with each address field set or
\* empty, under the default reference and a secondary one.
IPRecords ==
    {[name |-> VmName \o <<".">> \o Ns, mac |-> mac, v4 |-> v4, v6 |-> v6] :
        mac \in {<<"m">>, <<>>}, v4 \in {<<"4">>, <<>>}, v6 \in {<<"6">>, <<>>}}

BuilderRefs ==
    {defaultNetworkAnnotation, <<"a", ".">> \o Ns \o <<".">> \o defaultNetworkAnnotation}

(***************************************************************************)
(* State machine                                                           *)
(*                                                                         *)
(* op, arg and ret hold the call that has just returned, its arguments and *)
(* what it returned; op is "idle" between calls and "running" while a call  *)
(* that looks records up has not returned, frame then pointing to its      *)
(* position.  The cluster changes the IP resources, and the process its    *)
(* kubeconfig, between calls, between the lookups of a call, and between   *)
(* GetKubeOvnClient and the answer to the Get of one lookup.  answers is   *)
(* what the outside world answered to the calls of the log, in the order   *)
(* of the log: [ok, ip].                                                   *)
(***************************************************************************)
NoArg == [none |-> TRUE]

Init ==
    /\ store = EmptyMap
    /\ clientUp = TRUE
    /\ op = "idle"
    /\ arg = NoArg
    /\ ret = NoArg
    /\ frame = Nil
    /\ answers = <<>>

\* The cluster creates or rewrites an IP custom resource.
IPApplied ==
    \E n \in IPNames : \E v \in Versions(n) :
        /\ op \in {"idle", "running"}
        /\ store' = MapSet(store, n, IPResource(n, v))
        /\ store' # store
        /\ UNCHANGED <<clientUp, op, arg, ret, frame, answers>>

\* The cluster deletes an IP custom resource.
IPDeleted ==
    \E n \in DOMAIN store :
        /\ op \in {"idle", "running"}
        /\ store' = [k \in DOMAIN store \ {n} |-> store[k]]
        /\ UNCHANGED <<clientUp, op, arg, ret, frame, answers>>

\* The kubeconfig of the process becomes usable or unusable.
ClientChanged ==
    /\ op \in {"idle", "running"}
    /\ clientUp' = ~clientUp
    /\ UNCHANGED <<store, op, arg, ret, frame, answers>>

\* What the outside world answers to a call of the log.
Answer(c, st, up) ==
    IF c.call = "GetKubeOvnClient" THEN [ok |-> up, ip |-> Nil]
    ELSE IF c.name \in DOMAIN st THEN [ok |-> TRUE, ip |-> Ptr(st[c.name])]
    ELSE [ok |-> FALSE, ip |-> Nil]

\* The call is at frame f: before a lookup, or returning what GetIPsForVM,
\* or GetIPForVM, has returned.  The calls it has made since the last
\* answer are answered by the world as it is.
Lands(f) ==
    /\ answers' = answers \o [k \in 1..(Len(CallsOfFrame(f)) - Len(answers)) |->
                                 Answer(CallsOfFrame(f)[Len(answers) + k],
                                        store, clientUp)]
    /\ IF f.out = Nil
       THEN op' = "running" /\ ret' = NoArg /\ frame' = Ptr(f)
       ELSE op' = f.call /\ ret' = Outcome(f.call, f.out[1]) /\ frame' = Nil

CallGetIPsForVM ==
    \E vm \in VMs :
        /\ op = "idle"
        /\ arg' = [vm |-> vm]
        /\ Lands(EnterGetIPsForVM("GetIPsForVM", vm))
        /\ UNCHANGED <<store, clientUp>>

CallGetNetInfoForVm ==
    \E vm \in VMs :
        /\ op = "idle"
        /\ arg' = [vm |-> vm]
        /\ Lands(EnterGetIPsForVM("GetNetInfoForVm", vm))
        /\ UNCHANGED <<store, clientUp>>

CallGetKubeovnAnnotationsForVM ==
    \E vm \in {Nil} \cup {Ptr(v) : v \in VMs} :
        /\ op = "idle"
        /\ arg' = [vm |-> vm]
        /\ IF GetKubeovnAnnotationsForVM(vm) # Nil
           THEN /\ op' = "GetKubeovnAnnotationsForVM"
                /\ ret' = GetKubeovnAnnotationsForVM(vm)[1]
                /\ frame' = Nil
                /\ answers' = <<>>
           ELSE Lands(EnterGetIPsForVM("GetKubeovnAnnotationsForVM", vm[1]))
        /\ UNCHANGED <<store, clientUp>>

\* Frame g, reached with an empty store, ends on a request to the store:
\* the call has got its client and the name of the record, and waits in Get.
WaitsInGet(g) ==
    /\ Len(CallsOfFrame(g)) > Len(answers)
    /\ CallsOfFrame(g)[Len(CallsOfFrame(g))].call # "GetKubeOvnClient"

\* The call was at frame f and goes, with the kubeconfig as it is, to g or
\* into the Get of its next lookup.
Built(f, g) ==
    IF WaitsInGet(g)
    THEN /\ frame' = Ptr([f EXCEPT !.client = Ptr(clientUp)])
         /\ answers' = Append(answers, Answer(ClientCall, store, clientUp))
         /\ UNCHANGED <<op, ret>>
    ELSE Lands(g)

\* The running call goes on to GetKubeOvnClient of its next lookup, which
\* reads the kubeconfig, and from there to the Get of that lookup; or it
\* returns before it has asked the store: the client or the name of the
\* record failed, or nothing was left to look up.
BuildClient ==
    /\ op = "running"
    /\ frame[1].client = Nil
    /\ Built(frame[1], Proceed(frame[1], EmptyMap, clientUp))
    /\ UNCHANGED <<store, clientUp, arg>>

\* The API server answers the Get the running call waits in, from the store
\* as it is, and the call goes on up to its next lookup, or returns.
GetAnswered ==
    /\ op = "running"
    /\ frame[1].client # Nil
    /\ Lands(Proceed([frame[1] EXCEPT !.client = Nil], store, frame[1].client[1]))
    /\ UNCHANGED <<store, clientUp, arg>>

CallGetIPCRNameForVM ==
    \E nad \in NadAnnotations, n \in NamingVmNames, ns \in NamingNamespaces :
        /\ op = "idle"
        /\ op' = "getIPCRNameForVM"
        /\ arg' = [nadAnnotation |-> nad, vmName |-> n, vmNamespace |-> ns]
        /\ ret' = getIPCRNameForVM(nad, n, ns)
        /\ UNCHANGED <<store, clientUp, frame, answers>>

CallNetworkNameToNadAnnotation ==
    \E networkName \in NetworkNameInputs :
        /\ op = "idle"
        /\ op' = "NetworkNameToNadAnnotation"
        /\ arg' = [networkName |-> networkName]
        /\ ret' = NetworkNameToNadAnnotation(networkName)
        /\ UNCHANGED <<store, clientUp, frame, answers>>

CallGetIPForVM ==
    \E nad \in NadAnnotations, n \in {VmName, <<>>} :
        /\ op = "idle"
        /\ arg' = [nadAnnotation |-> nad, vmName |-> n, vmNamespace |-> Ns]
        /\ Lands(EnterGetIPForVM(nad, n, Ns))
        /\ UNCHANGED <<store, clientUp>>

\* The two steps GetIPsForVM takes for the multus network ns/name of VM n in
\* namespace ns: the network name to its attachment reference, and the
\* reference to the name of the IP resource.
CallResolveNetworkName ==
    \E n \in NamingVmNames, ns \in NamingNamespaces, name \in NadNames :
        /\ op = "idle"
        /\ op' = "ResolveNetworkName"
        /\ arg' = [vmName |-> n, namespace |-> ns, name |-> name]
        /\ ret' = LET conv == NetworkNameToNadAnnotation(ns \o <<"/">> \o name)
                  IN  IF IsErr(conv.err)
                      THEN [name |-> <<>>, err |-> conv.err]
                      ELSE getIPCRNameForVM(conv.nad, n, ns)
        /\ UNCHANGED <<store, clientUp, frame, answers>>

CallExecute ==
    \E in \in ExecInputs :
        /\ op = "idle"
        /\ op' = "Execute"
        /\ arg' = in
        /\ ret' = Execute(in.item, in.backup, in.excluded, in.restore)
        /\ UNCHANGED <<store, clientUp, frame, answers>>

CallIPToNetInfo ==
    \E nad \in BuilderRefs, ip \in IPRecords :
        /\ op = "idle"
        /\ op' = "IPToNetInfo"
        /\ arg' = [nadAnnotation |-> nad, ip |-> ip]
        /\ ret' = IPToNetInfo(nad, ip)
        /\ UNCHANGED <<store, clientUp, frame, answers>>

CallToAnnotations ==
    \E nad \in BuilderRefs, ip \in IPRecords :
        /\ op = "idle"
        /\ op' = "ToAnnotations"
        /\ arg' = [n |-> IPToNetInfo(nad, ip)]
        /\ ret' = [annotations |-> ToAnnotations(IPToNetInfo(nad, ip))]
        /\ UNCHANGED <<store, clientUp, frame, answers>>

\* The caller takes the result of the call; the next call starts afresh.
Return ==
    /\ op \notin {"idle", "running"}
    /\ op' = "idle"
    /\ arg' = NoArg
    /\ ret' = NoArg
    /\ answers' = <<>>
    /\ UNCHANGED <<store, clientUp, frame>>

Next ==
    \/ IPApplied
    \/ IPDeleted
    \/ ClientChanged
    \/ CallGetIPsForVM
    \/ CallGetNetInfoForVm
    \/ CallGetKubeovnAnnotationsForVM
    \/ BuildClient
    \/ GetAnswered
    \/ CallGetIPCRNameForVM
    \/ CallNetworkNameToNadAnnotation
    \/ CallGetIPForVM
    \/ CallResolveNetworkName
    \/ CallExecute
    \/ CallIPToNetInfo
    \/ CallToAnnotations
    \/ Return

Spec == Init /\ [][Next]_vars

(***************************************************************************)
(* What the claims speak of                                                *)
(***************************************************************************)
\* The call that has just ended returned, and returned no error.
Succeeded == ~IsErr(ret.err) /\ ~ret.panic

HasTemplate(vm) == vm.template # Nil
NetworksOf(vm) == vm.template[1].networks

IsPod(network) == network.pod
IsMultus(network) == network.multus # Nil
IsDefaultMultus(network) == network.multus # Nil /\ network.multus[1].default

\* "<vmName>.<vmNamespace>"
DefaultIPName(vm) == vm.name \o <<".">> \o vm.namespace

\* The attachment reference and the record identifier of a declaration whose
\* multus network name is "<namespace of the VM>/<name>".
NadNameOf(vm, network) ==
    LET nn == network.multus[1].networkName
    IN  SubSeq(nn, Len(vm.namespace) + 2, Len(nn))

ExpectedRef(vm, network) ==
    IF IsPod(network) THEN defaultNetworkAnnotation
    ELSE NadNameOf(vm, network) \o <<".">> \o vm.namespace \o <<".">>
             \o defaultNetworkAnnotation

ExpectedIPName(vm, network) ==
    IF IsPod(network) THEN DefaultIPName(vm)
    ELSE vm.name \o <<".">> \o vm.namespace \o <<".">> \o NadNameOf(vm, network)
             \o <<".">> \o vm.namespace \o <<".", "o", "v", "n">>

\* The i-th entry of the result is the i-th declaration's: its reference, and
\* the record the store answered the Get of its identifier with (the i-th
\* lookup is the calls 2i - 1 and 2i of the log).
EntryIsDeclaration(vm, i) ==
    /\ ret.nads[i] = ExpectedRef(vm, NetworksOf(vm)[i])
    /\ ret.calls[2 * i] = GetCall(ExpectedIPName(vm, NetworksOf(vm)[i]))
    /\ answers[2 * i].ip = Ptr(ret.ips[i])

\* The i-th entry of the result is the default network's.
EntryIsDefault(vm, i) ==
    /\ ret.nads[i] = defaultNetworkAnnotation
    /\ ret.calls[2 * i] = GetCall(DefaultIPName(vm))
    /\ answers[2 * i].ip = Ptr(ret.ips[i])

DefaultEntries == {i \in 1..Len(ret.nads) : ret.nads[i] = defaultNetworkAnnotation}

\* "v4,v6", an empty address left out
ExpectedIPs(ip) ==
    IF ip.v4 = <<>> THEN ip.v6
    ELSE IF ip.v6 = <<>> THEN ip.v4
    ELSE ip.v4 \o <<",">> \o ip.v6

MacKey(ref) == ref \o <<"/">> \o macAddressKey
IpKey(ref) == ref \o <<"/">> \o ipAddressKey

\* What GetIPsForVM returns from frame f on when the store and the
\* kubeconfig stay as they are.
RECURSIVE QuietRun(_, _, _)
QuietRun(f, st, up) ==
    IF f.out # Nil THEN f.out[1]
    ELSE QuietRun(GetIPsForVM(f, st, up), st, up)

\* What the resolution of the VM gives against the store as it is.
Resolution(vm) == QuietRun(EnterGetIPsForVM("GetIPsForVM", vm), store, clientUp)
ResolutionSucceeds(vm) ==
    HasTemplate(vm) /\ ~IsErr(Resolution(vm).err)
ResolutionFails(vm) ==
    HasTemplate(vm) /\ IsErr(Resolution(vm).err)

(***************************************************************************)
(* Claims about the backup item action                                     *)
(***************************************************************************)
AnnotationsOfReturnedItem == ret.item[1].template[1].annotations

\* C1: whenever Execute succeeds for a VM, the annotations of the returned
\* item's template hold, for every interface resolved for the VM, the keys
\* <ref>/mac_address and <ref>/ip_address with the MAC and the IPs of the IP
\* record fetched for that interface.
C1_ResolvedAnnotationsInjected ==
    (op = "Execute" /\ Succeeded /\ ResolutionSucceeds(arg.item)) =>
        /\ ret.item # Nil
        /\ HasTemplate(ret.item[1])
        /\ LET r == Resolution(arg.item)
           IN  \A i \in 1..Len(r.nads) :
                   /\ MacKey(r.nads[i]) \in DOMAIN AnnotationsOfReturnedItem
                   /\ AnnotationsOfReturnedItem[MacKey(r.nads[i])] = r.ips[i].mac
                   /\ IpKey(r.nads[i]) \in DOMAIN AnnotationsOfReturnedItem
                   /\ AnnotationsOfReturnedItem[IpKey(r.nads[i])] = ExpectedIPs(r.ips[i])

\* The keys <ref>/mac_address and <ref>/ip_address of the interfaces resolved
\* for the VM (none when the resolution fails).
ResolvedKeys(vm) ==
    IF ~ResolutionSucceeds(vm) THEN {}
    ELSE UNION {{MacKey(Resolution(vm).nads[i]), IpKey(Resolution(vm).nads[i])} :
                    i \in 1..Len(Resolution(vm).nads)}

\* C2: whenever Execute succeeds, every annotation key the VM template had
\* before the call, and that is not a resolved <ref>/mac_address or
\* <ref>/ip_address key, is in the returned item with the same value.
C2_ExistingAnnotationsKept ==
    (op = "Execute" /\ Succeeded /\ HasTemplate(arg.item)) =>
        /\ ret.item # Nil
        /\ HasTemplate(ret.item[1])
        /\ \A k \in DOMAIN arg.item.template[1].annotations \ ResolvedKeys(arg.item) :
               /\ k \in DOMAIN AnnotationsOfReturnedItem
               /\ AnnotationsOfReturnedItem[k] = arg.item.template[1].annotations[k]

\* Execute succeeded for a VM whose template had a foreign annotation and a
\* stale one under a key the resolution gives.
C2_Witness ==
    /\ op = "Execute"
    /\ Succeeded
    /\ HasTemplate(arg.item)
    /\ arg.item.template[1].annotations = StaleAnnotations
    /\ MacKey(defaultNetworkAnnotation) \in ResolvedKeys(arg.item)

\* C3: if the resolution of the VM's annotations fails, Execute returns an
\* error and no item.
C3_ResolutionFailureFailsBackup ==
    (op = "Execute" /\ ResolutionFails(arg.item)) =>
        (~ret.panic /\ IsErr(ret.err) /\ ret.item = Nil)

(***************************************************************************)
(* Claims about the resolution                                             *)
(***************************************************************************)
\* The attachments of a VM: one per declaration, and the implicit default
\* network when the list is empty or declares neither the pod network nor a
\* default-flagged multus network.
ImplicitDefault(vm) ==
    \A i \in 1..Len(NetworksOf(vm)) :
        ~IsPod(NetworksOf(vm)[i]) /\ ~IsDefaultMultus(NetworksOf(vm)[i])

AttachmentRefs(vm) ==
    {ExpectedRef(vm, NetworksOf(vm)[i]) : i \in 1..Len(NetworksOf(vm))}
    \cup (IF ImplicitDefault(vm) THEN {defaultNetworkAnnotation} ELSE {})

\* The map holds both annotation entries of every attachment of the VM.
CoversEveryAttachment(annotations, vm) ==
    \A ref \in AttachmentRefs(vm) :
        MacKey(ref) \in DOMAIN annotations /\ IpKey(ref) \in DOMAIN annotations

\* C4: GetKubeovnAnnotationsForVM has exactly two outcomes for any VM and any
\* store: an error with no annotation map, or no error with a map holding
\* both annotation entries of every attachment of the VM.
C4_AllOrNothing ==
    op = "GetKubeovnAnnotationsForVM" =>
        /\ ~ret.panic
        /\ \/ IsErr(ret.err) /\ ret.isNil
           \/ /\ ~IsErr(ret.err)
              /\ ~ret.isNil
              /\ arg.vm # Nil
              /\ HasTemplate(arg.vm[1])
              /\ CoversEveryAttachment(ret.annotations, arg.vm[1])

\* The same, of the calls that return: the call that does not return is the
\* one on a VM without template.
C4_AllOrNothingWhenReturning ==
    (op = "GetKubeovnAnnotationsForVM" /\ ~ret.panic) =>
        \/ IsErr(ret.err) /\ ret.isNil
        \/ /\ ~IsErr(ret.err)
           /\ ~ret.isNil
           /\ arg.vm # Nil
           /\ HasTemplate(arg.vm[1])
           /\ CoversEveryAttachment(ret.annotations, arg.vm[1])

C4_OnlyTheMissingTemplateAborts ==
    (op = "GetKubeovnAnnotationsForVM" /\ ret.panic) =>
        (arg.vm # Nil /\ ~HasTemplate(arg.vm[1]))

\* C5: for a VM whose declaration list is empty, a successful GetIPsForVM
\* returns exactly one entry: the record fetched under
\* <vmName>.<vmNamespace>, with the default reference ovn.kubernetes.io.
C5_EmptyListGivesDefault ==
    (/\ op = "GetIPsForVM"
     /\ HasTemplate(arg.vm)
     /\ NetworksOf(arg.vm) = <<>>
     /\ Succeeded) =>
        /\ Len(ret.ips) = 1
        /\ Len(ret.nads) = 1
        /\ EntryIsDefault(arg.vm, 1)
        /\ ret.calls = <<ClientCall, GetCall(DefaultIPName(arg.vm))>>

C5_Witness ==
    /\ op = "GetIPsForVM"
    /\ HasTemplate(arg.vm)
    /\ NetworksOf(arg.vm) = <<>>
    /\ Succeeded
    /\ ret.ips = <<IPResource(VmName \o <<".">> \o Ns, 2)>>

\* The list declares the pod network, and no default-flagged multus network.
PodAndNoDefaultMultus(vm) ==
    /\ \E i \in 1..Len(NetworksOf(vm)) : IsPod(NetworksOf(vm)[i])
    /\ \A i \in 1..Len(NetworksOf(vm)) : ~IsDefaultMultus(NetworksOf(vm)[i])

MultusDeclarations(vm) ==
    {i \in 1..Len(NetworksOf(vm)) : IsMultus(NetworksOf(vm)[i])}

\* C6 as stated: with a pod-network declaration and no default-flagged multus
\* declaration, a successful GetIPsForVM returns exactly one default-network
\* entry plus one entry per multus declaration.
C6_ExactlyOneDefaultEntry ==
    (/\ op = "GetIPsForVM"
     /\ HasTemplate(arg.vm)
     /\ PodAndNoDefaultMultus(arg.vm)
     /\ Succeeded) =>
        /\ Cardinality(DefaultEntries) = 1
        /\ Len(ret.nads) = 1 + Cardinality(MultusDeclarations(arg.vm))

\* C6 amended: with at least one pod-network declaration and no
\* default-flagged multus declaration, a successful GetIPsForVM returns one
\* entry per declaration, in declaration order: a default-network entry for
\* each pod-network declaration, the attachment's entry for each multus
\* declaration, and no implicit default entry after them.
C6_OneEntryPerDeclaration ==
    (/\ op = "GetIPsForVM"
     /\ HasTemplate(arg.vm)
     /\ PodAndNoDefaultMultus(arg.vm)
     /\ Succeeded) =>
        /\ Len(ret.nads) = Len(NetworksOf(arg.vm))
        /\ Len(ret.ips) = Len(NetworksOf(arg.vm))
        /\ \A i \in 1..Len(NetworksOf(arg.vm)) : EntryIsDeclaration(arg.vm, i)
        /\ Cardinality(DefaultEntries)
             = Cardinality({i \in 1..Len(NetworksOf(arg.vm)) :
                               IsPod(NetworksOf(arg.vm)[i])})

\* GetIPsForVM succeeded on a multus declaration followed by the pod network.
C6_Witness ==
    /\ op = "GetIPsForVM"
    /\ HasTemplate(arg.vm)
    /\ PodAndNoDefaultMultus(arg.vm)
    /\ Succeeded
    /\ Len(NetworksOf(arg.vm)) = 2
    /\ IsMultus(NetworksOf(arg.vm)[1])
    /\ IsPod(NetworksOf(arg.vm)[2])

\* The list has exactly one multus declaration flagged as default, and no
\* pod-network declaration.
OneDefaultMultusAndNoPod(vm) ==
    /\ Cardinality({i \in 1..Len(NetworksOf(vm)) :
                       IsDefaultMultus(NetworksOf(vm)[i])}) = 1
    /\ \A i \in 1..Len(NetworksOf(vm)) : ~IsPod(NetworksOf(vm)[i])

\* C7 as stated: with exactly one multus declaration flagged as default and
\* no pod-network declaration, a successful GetIPsForVM returns exactly one
\* entry, and no implicit default-network entry.
C7_ExactlyOneEntry ==
    (/\ op = "GetIPsForVM"
     /\ HasTemplate(arg.vm)
     /\ OneDefaultMultusAndNoPod(arg.vm)
     /\ Succeeded) =>
        /\ Len(ret.nads) = 1
        /\ Len(ret.ips) = 1
        /\ DefaultEntries = {}

\* C7 amended: with exactly one multus declaration flagged as default and no
\* pod-network declaration, a successful GetIPsForVM returns one entry per
\* multus declaration of the list, in declaration order (exactly one entry
\* when that declaration is the whole list), and no implicit default-network
\* entry.
C7_NoDefaultInjected ==
    (/\ op = "GetIPsForVM"
     /\ HasTemplate(arg.vm)
     /\ OneDefaultMultusAndNoPod(arg.vm)
     /\ Succeeded) =>
        /\ Len(ret.nads) = Len(NetworksOf(arg.vm))
        /\ Len(ret.ips) = Len(NetworksOf(arg.vm))
        /\ \A i \in 1..Len(NetworksOf(arg.vm)) : EntryIsDeclaration(arg.vm, i)
        /\ DefaultEntries = {}
        /\ Len(NetworksOf(arg.vm)) = 1 => Len(ret.nads) = 1

\* GetIPsForVM succeeded on the single declaration of a default-flagged
\* multus network, the store holding the default network's record too.
C7_Witness ==
    /\ op = "GetIPsForVM"
    /\ HasTemplate(arg.vm)
    /\ OneDefaultMultusAndNoPod(arg.vm)
    /\ Succeeded
    /\ Len(NetworksOf(arg.vm)) = 1
    /\ DefaultIPName(arg.vm) \in DOMAIN store

\* The list is not empty and holds only multus declarations that are not
\* flagged as default.
OnlySecondaryMultus(vm) ==
    /\ Len(NetworksOf(vm)) >= 1
    /\ \A i \in 1..Len(NetworksOf(vm)) :
           /\ IsMultus(NetworksOf(vm)[i])
           /\ ~IsPod(NetworksOf(vm)[i])
           /\ ~IsDefaultMultus(NetworksOf(vm)[i])

\* C8: with a non-empty list of multus declarations not flagged as default, a
\* successful GetIPsForVM returns one entry per multus declaration in
\* declaration order, followed by exactly one implicit default-network
\* entry, the last element of the result.
C8_ImplicitDefaultLast ==
    (/\ op = "GetIPsForVM"
     /\ HasTemplate(arg.vm)
     /\ OnlySecondaryMultus(arg.vm)
     /\ Succeeded) =>
        /\ Len(ret.nads) = Len(NetworksOf(arg.vm)) + 1
        /\ Len(ret.ips) = Len(NetworksOf(arg.vm)) + 1
        /\ \A i \in 1..Len(NetworksOf(arg.vm)) : EntryIsDeclaration(arg.vm, i)
        /\ EntryIsDefault(arg.vm, Len(ret.nads))
        /\ DefaultEntries = {Len(ret.nads)}

\* GetIPsForVM succeeded on two different secondary networks.
C8_Witness ==
    /\ op = "GetIPsForVM"
    /\ HasTemplate(arg.vm)
    /\ OnlySecondaryMultus(arg.vm)
    /\ Succeeded
    /\ Len(NetworksOf(arg.vm)) = 2
    /\ NetworksOf(arg.vm)[1] # NetworksOf(arg.vm)[2]

(***************************************************************************)
(* Claims about the naming grammar                                         *)
(***************************************************************************)
HasChar(s, c) == \E i \in 1..Len(s) : s[i] = c

\* The components of a secondary reference <name>.<namespace>.ovn.kubernetes.io
\* are read as the grammar reads them: not empty, and without a dot.
Component(s) == s # <<>> /\ ~HasChar(s, ".") /\ ~HasChar(s, "/")

ComponentsIn(strings) == {s \in strings : Component(s)}

SecondaryRef(name, namespace) ==
    name \o <<".">> \o namespace \o <<".">> \o defaultNetworkAnnotation

SecondaryIPName(vmName, vmNamespace, name, namespace) ==
    vmName \o <<".">> \o vmNamespace \o <<".">> \o name \o <<".">> \o namespace
        \o <<".", "o", "v", "n">>

\* The identifier the claim gives for a reference, <<>> when the reference is
\* neither the default one nor <name>.<vmNamespace>.ovn.kubernetes.io.
ClaimedIPName(nadAnnotation, vmName, vmNamespace) ==
    IF nadAnnotation = defaultNetworkAnnotation
    THEN vmName \o <<".">> \o vmNamespace
    ELSE IF \E n \in ComponentsIn(NadNames) :
                Component(vmNamespace) /\ nadAnnotation = SecondaryRef(n, vmNamespace)
    THEN LET n == CHOOSE n \in ComponentsIn(NadNames) :
                      nadAnnotation = SecondaryRef(n, vmNamespace)
         IN  SecondaryIPName(vmName, vmNamespace, n, vmNamespace)
    ELSE <<>>

\* C9: for a non-empty vmName and vmNamespace, getIPCRNameForVM returns
\* <vmName>.<vmNamespace> for the default reference and
\* <vmName>.<vmNamespace>.<name>.<namespace>.ovn for a secondary reference
\* <name>.<namespace>.ovn.kubernetes.io whose namespace is vmNamespace; and
\* that identifier is the key under which GetIPForVM fetches the record.
C9_RecordIdentifier ==
    /\ (/\ op = "getIPCRNameForVM"
        /\ arg.vmName # <<>>
        /\ arg.vmNamespace # <<>>
        /\ ClaimedIPName(arg.nadAnnotation, arg.vmName, arg.vmNamespace) # <<>>) =>
            /\ ~IsErr(ret.err)
            /\ ret.name = ClaimedIPName(arg.nadAnnotation, arg.vmName, arg.vmNamespace)
    /\ (/\ op = "GetIPForVM"
        /\ answers[1].ok
        /\ arg.vmName # <<>>
        /\ ClaimedIPName(arg.nadAnnotation, arg.vmName, arg.vmNamespace) # <<>>) =>
            LET ipName == ClaimedIPName(arg.nadAnnotation, arg.vmName, arg.vmNamespace)
            IN  /\ ret.calls = <<ClientCall, GetCall(ipName)>>
                /\ Len(answers) = 2
                /\ answers[2].ok => ret.ip = answers[2].ip /\ ~IsErr(ret.err)
                /\ ~answers[2].ok => ret.ip = Nil /\ IsErr(ret.err)

\* GetIPForVM fetched the record of a secondary reference.
C9_Witness ==
    /\ op = "GetIPForVM"
    /\ arg.nadAnnotation = SecondaryRef(<<"a">>, Ns)
    /\ ~IsErr(ret.err)
    /\ ret.ip = Ptr(IPResource(SecondaryIPName(VmName, Ns, <<"a">>, Ns), 1))

\* A well-formed name of a VM or of a NetworkAttachmentDefinition: not empty
\* and without a slash (a Kubernetes object name may hold dots; a namespace
\* is a DNS label, and holds none).
SlashFree(s) == s # <<>> /\ ~HasChar(s, "/")

\* C10 as stated: for any well-formed vm, ns and name,
\* NetworkNameToNadAnnotation on ns/name and then getIPCRNameForVM on the
\* result, for VM vm of namespace ns, succeed and give vm.ns.name.ns.ovn.
C10_RoundTripOfAnyName ==
    (/\ op = "ResolveNetworkName"
     /\ SlashFree(arg.vmName)
     /\ Component(arg.namespace)
     /\ SlashFree(arg.name)) =>
        /\ ~IsErr(ret.err)
        /\ ret.name = SecondaryIPName(arg.vmName, arg.namespace, arg.name, arg.namespace)

\* C10 amended: the same for any non-empty vm and any non-empty ns and name
\* that hold neither a slash nor a dot.
C10_RoundTrip ==
    (/\ op = "ResolveNetworkName"
     /\ arg.vmName # <<>>
     /\ Component(arg.namespace)
     /\ Component(arg.name)) =>
        /\ ~IsErr(ret.err)
        /\ ret.name = SecondaryIPName(arg.vmName, arg.namespace, arg.name, arg.namespace)

\* The round trip ended well for a VM whose name holds a dot.
C10_Witness ==
    /\ op = "ResolveNetworkName"
    /\ HasChar(arg.vmName, ".")
    /\ Component(arg.namespace)
    /\ Component(arg.name)
    /\ ~IsErr(ret.err)
    /\ ret.name # <<>>

(***************************************************************************)
(* Claims about the failures of the grammar                                *)
(***************************************************************************)
\* The declarations of the VM's list whose multus network is of another
\* namespace than the VM's.
CrossNamespaceDeclarations(vm) ==
    {i \in 1..Len(NetworksOf(vm)) :
        /\ IsMultus(NetworksOf(vm)[i])
        /\ \E ns \in ComponentsIn(NamingNamespaces), n \in ComponentsIn(NadNames) :
               /\ ns # vm.namespace
               /\ NetworksOf(vm)[i].multus[1].networkName = ns \o <<"/">> \o n}

\* C11: for a VM with a name and a namespace, the derivation of the record
\* identifier of a secondary reference <name>.<namespace>.ovn.kubernetes.io
\* whose namespace is not the VM's fails with the namespace-mismatch error;
\* and GetIPsForVM of a VM that declares a multus network of another
\* namespace fails and returns no entry, with the namespace-mismatch error
\* when that declaration is the first of the list and its client is built.
C11_CrossNamespaceRejected ==
    /\ (/\ op = "getIPCRNameForVM"
        /\ arg.vmName # <<>>
        /\ arg.vmNamespace # <<>>
        /\ \E ns \in ComponentsIn(NamingNamespaces), n \in ComponentsIn(NadNames) :
               ns # arg.vmNamespace /\ arg.nadAnnotation = SecondaryRef(n, ns)) =>
            /\ ret.err = NewErr("NamespaceMismatch")
            /\ ret.name = <<>>
    /\ (/\ op = "GetIPsForVM"
        /\ HasTemplate(arg.vm)
        /\ CrossNamespaceDeclarations(arg.vm) # {}) =>
            /\ IsErr(ret.err)
            /\ ret.ips = <<>>
            /\ ret.nads = <<>>
            /\ (1 \in CrossNamespaceDeclarations(arg.vm) /\ answers[1].ok
                    /\ arg.vm.name # <<>>) =>
                   Carries(ret.err, "NamespaceMismatch")

\* GetIPsForVM resolved a first declaration and then failed on a multus
\* network of another namespace.
C11_Witness ==
    /\ op = "GetIPsForVM"
    /\ HasTemplate(arg.vm)
    /\ CrossNamespaceDeclarations(arg.vm) = {2}
    /\ Carries(ret.err, "NamespaceMismatch")
    /\ Len(ret.calls) = 3
    /\ ret.ips = <<>>

\* The positions of the slashes of a network name.
Slashes(s) == {i \in 1..Len(s) : s[i] = "/"}

\* <namespace>/<name>, namespace and name not empty and without a slash.
TwoNonEmptyComponents(s) ==
    /\ Cardinality(Slashes(s)) = 1
    /\ 1 \notin Slashes(s)
    /\ Len(s) \notin Slashes(s)

\* C12: NetworkNameToNadAnnotation succeeds only when the network name
\* splits on the slash into exactly two components, both non-empty; on every
\* other input it fails with the malformed-reference error and returns no
\* reference.
C12_TwoNonEmptyComponents ==
    (op = "NetworkNameToNadAnnotation") =>
        /\ ~IsErr(ret.err) => TwoNonEmptyComponents(arg.networkName)
        /\ ~TwoNonEmptyComponents(arg.networkName) =>
               ret.err = NewErr("MalformedNetworkName") /\ ret.nad = <<>>

\* The reference ends with ovn.kubernetes.io.
EndsWithDefault(s) ==
    /\ Len(s) >= Len(defaultNetworkAnnotation)
    /\ \A i \in 1..Len(defaultNetworkAnnotation) :
           s[Len(s) - Len(defaultNetworkAnnotation) + i] = defaultNetworkAnnotation[i]

\* C13 as stated: getIPCRNameForVM fails with the empty-identity error
\* whenever vmName or vmNamespace is empty, whatever the reference, malformed
\* or without the suffix.
C13_EmptyIdentityWhateverTheReference ==
    (/\ op = "getIPCRNameForVM"
     /\ (arg.vmName = <<>> \/ arg.vmNamespace = <<>>)) =>
        /\ ret.err = NewErr("EmptyIdentity")
        /\ ret.name = <<>>

\* C13 amended: getIPCRNameForVM fails with the empty-identity error whenever
\* vmName or vmNamespace is empty and the reference ends with
\* ovn.kubernetes.io, malformed or not; a reference that does not end with it
\* fails with the invalid-suffix error, whatever the name and the namespace.
C13_EmptyIdentityAfterSuffix ==
    (op = "getIPCRNameForVM") =>
        /\ ((arg.vmName = <<>> \/ arg.vmNamespace = <<>>)
                /\ EndsWithDefault(arg.nadAnnotation)) =>
               ret.err = NewErr("EmptyIdentity") /\ ret.name = <<>>
        /\ ~EndsWithDefault(arg.nadAnnotation) =>
               ret.err = NewErr("InvalidReferenceSuffix") /\ ret.name = <<>>

\* getIPCRNameForVM was given no VM name and a reference that ends with the
\* suffix but has no dot before it.
C13_Witness ==
    /\ op = "getIPCRNameForVM"
    /\ arg.vmName = <<>>
    /\ arg.nadAnnotation = <<"x">> \o defaultNetworkAnnotation
    /\ ret.err = NewErr("EmptyIdentity")

(***************************************************************************)
(* Claims about the annotation builder                                     *)
(***************************************************************************)
\* C14: IPToNetInfo builds the IPs string from the non-empty address fields
\* of the record, IPv4 before IPv6, joined by a comma: both give v4,v6, one
\* gives that address alone, none gives the empty string; the string has no
\* leading, trailing or doubled comma; MAC and reference are copied.
C14_AddressesJoined ==
    (op = "IPToNetInfo") =>
        /\ ret.IPs = ExpectedIPs(arg.ip)
        /\ (arg.ip.v4 # <<>> /\ arg.ip.v6 # <<>>) =>
               ret.IPs = arg.ip.v4 \o <<",">> \o arg.ip.v6
        /\ (arg.ip.v4 = <<>> /\ arg.ip.v6 = <<>>) => ret.IPs = <<>>
        /\ ret.IPs # <<>> => ret.IPs[1] # "," /\ ret.IPs[Len(ret.IPs)] # ","
        /\ \A i \in 1..(Len(ret.IPs) - 1) : ~(ret.IPs[i] = "," /\ ret.IPs[i + 1] = ",")
        /\ ret.MAC = arg.ip.mac
        /\ ret.NADAnnotation = arg.nadAnnotation

\* IPToNetInfo was given a record with an IPv6 address only.
C14_Witness ==
    /\ op = "IPToNetInfo"
    /\ arg.ip.v4 = <<>>
    /\ arg.ip.v6 = <<"6">>
    /\ ret.IPs = <<"6">>

\* The entries a successful call through GetIPsForVM resolved, one per
\* lookup: the reference of the i-th is that of the i-th declaration, or the
\* default one after the declarations, and its record is what the store
\* answered the i-th Get with.
NumResolved == Len(answers) \div 2
ResolvedRef(vm, i) ==
    IF i <= Len(NetworksOf(vm)) THEN ExpectedRef(vm, NetworksOf(vm)[i])
    ELSE defaultNetworkAnnotation
ResolvedRecord(i) == answers[2 * i].ip[1]

\* C15 as stated: ToAnnotations returns exactly two entries,
\* <ref>/mac_address with the MAC and <ref>/ip_address with the IPs string;
\* and the map that GetKubeovnAnnotationsForVM returns is the union of these
\* pairs over the resolved entries of the VM, with no other key.
C15_TwoEntriesPerNetInfo ==
    /\ (op = "ToAnnotations") =>
           /\ DOMAIN ret.annotations
                = {MacKey(arg.n.NADAnnotation), IpKey(arg.n.NADAnnotation)}
           /\ Cardinality(DOMAIN ret.annotations) = 2
           /\ ret.annotations[MacKey(arg.n.NADAnnotation)] = arg.n.MAC
           /\ ret.annotations[IpKey(arg.n.NADAnnotation)] = arg.n.IPs
    /\ (/\ op = "GetKubeovnAnnotationsForVM"
        /\ arg.vm # Nil
        /\ Succeeded) =>
           /\ DOMAIN ret.annotations
                = UNION {{MacKey(ResolvedRef(arg.vm[1], i)),
                          IpKey(ResolvedRef(arg.vm[1], i))} : i \in 1..NumResolved}
           /\ \A i \in 1..NumResolved :
                  /\ ret.annotations[MacKey(ResolvedRef(arg.vm[1], i))]
                       = ResolvedRecord(i).mac
                  /\ ret.annotations[IpKey(ResolvedRef(arg.vm[1], i))]
                       = ExpectedIPs(ResolvedRecord(i))

\* The resolved entries whose reference no later entry has.
LastOfItsRef(vm) ==
    {i \in 1..NumResolved :
        \A j \in (i + 1)..NumResolved : ResolvedRef(vm, j) # ResolvedRef(vm, i)}

\* C15 amended: ToAnnotations returns exactly two entries,
\* <ref>/mac_address with the MAC and <ref>/ip_address with the IPs string;
\* and the map that GetKubeovnAnnotationsForVM returns has the two keys of
\* every resolved entry and no other key, with the pair of the last entry
\* of each reference: the pair of an entry whose reference a later entry
\* has too is replaced by the later one's.
C15_TwoEntriesOfTheLastPerReference ==
    /\ (op = "ToAnnotations") =>
           /\ DOMAIN ret.annotations
                = {MacKey(arg.n.NADAnnotation), IpKey(arg.n.NADAnnotation)}
           /\ Cardinality(DOMAIN ret.annotations) = 2
           /\ ret.annotations[MacKey(arg.n.NADAnnotation)] = arg.n.MAC
           /\ ret.annotations[IpKey(arg.n.NADAnnotation)] = arg.n.IPs
    /\ (/\ op = "GetKubeovnAnnotationsForVM"
        /\ arg.vm # Nil
        /\ Succeeded) =>
           /\ Len(answers) = Len(ret.calls)
           /\ DOMAIN ret.annotations
                = UNION {{MacKey(ResolvedRef(arg.vm[1], i)),
                          IpKey(ResolvedRef(arg.vm[1], i))} : i \in 1..NumResolved}
           /\ \A i \in LastOfItsRef(arg.vm[1]) :
                  /\ ret.annotations[MacKey(ResolvedRef(arg.vm[1], i))]
                       = ResolvedRecord(i).mac
                  /\ ret.annotations[IpKey(ResolvedRef(arg.vm[1], i))]
                       = ExpectedIPs(ResolvedRecord(i))

\* GetKubeovnAnnotationsForVM returned the four entries of a VM with two
\* resolved networks.
C15_Witness ==
    /\ op = "GetKubeovnAnnotationsForVM"
    /\ arg.vm # Nil
    /\ Succeeded
    /\ Cardinality(DOMAIN ret.annotations) = 4
    /\ Len(NetworksOf(arg.vm[1])) = 1

(***************************************************************************)
(* Claims about the resolution facade                                      *)
(***************************************************************************)
\* C16: GetKubeovnAnnotationsForVM of a nil VM returns the invalid-input
\* error and no map, without building the client or asking the store
\* anything.
C16_NilVMRejected ==
    (op = "GetKubeovnAnnotationsForVM" /\ arg.vm = Nil) =>
        /\ ret.err = NewErr("InvalidInput")
        /\ ret.isNil
        /\ ret.annotations = EmptyMap
        /\ ret.calls = <<>>
        /\ ~ret.panic

\* GetKubeovnAnnotationsForVM was given a nil VM while the store held records.
C16_Witness ==
    /\ op = "GetKubeovnAnnotationsForVM"
    /\ arg.vm = Nil
    /\ store # EmptyMap
    /\ IsErr(ret.err)

\* The failures the enumeration raises.
EnumerationFailures ==
    {"MalformedNetworkName", "InvalidReferenceSuffix", "MalformedReference",
     "NamespaceMismatch", "EmptyIdentity", "RecordNotFound", "StoreUnavailable"}

\* C17: a failure raised inside the enumeration reaches the caller of
\* GetKubeovnAnnotationsForVM as an error that still carries it: the error
\* returned for a VM carries the failure of the enumeration it comes from.
C17_FailureKindPreserved ==
    (/\ op = "GetKubeovnAnnotationsForVM"
     /\ arg.vm # Nil
     /\ ~ret.panic
     /\ IsErr(ret.err)) =>
        \E kind \in EnumerationFailures : Carries(ret.err, kind)

(***************************************************************************)
(* Claims about the store                                                  *)
(***************************************************************************)
\* C18: the store is read-only for the program: every step of a call, that
\* of Execute and those of GetKubeovnAnnotationsForVM among them,
\* successful or failing, leaves the set of IP records and the content of
\* each as they were, and the only operation a call issues on the store is
\* a Get by identifier.
C18_StoreReadOnly ==
    /\ [][(op' # op \/ frame' # frame) => store' = store]_vars
    /\ [](op = "GetKubeovnAnnotationsForVM" =>
            \A i \in 1..Len(ret.calls) :
                \/ ret.calls[i] = ClientCall
                \/ /\ ret.calls[i].call = "Get"
                   /\ ret.calls[i].name # <<>>)
    /\ [](op = "Execute" =>
            \A i \in 1..Len(ret.calls) : ret.calls[i] = LabelCall)

\* GetKubeovnAnnotationsForVM read the three records the store holds.
C18_Witness ==
    /\ op = "GetKubeovnAnnotationsForVM"
    /\ arg.vm # Nil
    /\ Cardinality(DOMAIN store) = 3
    /\ Cardinality({i \in 1..Len(ret.calls) : ret.calls[i].call = "Get"}) = 3
    /\ Succeeded

\* The Gets the call asked of the store.
Looked == {ret.calls[i] : i \in {j \in 1..Len(ret.calls) : ret.calls[j].call = "Get"}}

\* The last answer of the store for the identifier.
LastAnswerFor(ipName) ==
    answers[CHOOSE k \in 1..Len(answers) :
                /\ ret.calls[k] = GetCall(ipName)
                /\ \A j \in (k + 1)..Len(answers) : ret.calls[j] # GetCall(ipName)]

\* C19: nothing is cached: nothing of a call is left once it is over, and
\* whatever updates of the store came before a lookup, a successful
\* resolution returns, for every entry, the record the store answered that
\* entry's own lookup with, and the annotations built from it, even when an
\* earlier lookup was answered with another version of the record; and a
\* call that asks for a record the store does not hold at that time fails.
C19_NothingCached ==
    /\ op = "idle" => (frame = Nil /\ answers = <<>> /\ ret = NoArg)
    /\ (op = "GetIPsForVM" /\ HasTemplate(arg.vm) /\ Succeeded) =>
           /\ Len(answers) = 2 * Len(ret.ips)
           /\ \A i \in 1..Len(ret.ips) : answers[2 * i].ip = Ptr(ret.ips[i])
    /\ (/\ op = "GetIPsForVM"
        /\ HasTemplate(arg.vm)
        /\ \E k \in 1..Len(answers) : ~answers[k].ok) =>
           IsErr(ret.err)
    /\ (/\ op = "GetKubeovnAnnotationsForVM"
        /\ arg.vm # Nil
        /\ Succeeded
        /\ MacKey(defaultNetworkAnnotation) \in DOMAIN ret.annotations) =>
           /\ Len(answers) = Len(ret.calls)
           /\ GetCall(DefaultIPName(arg.vm[1])) \in Looked
           /\ LastAnswerFor(DefaultIPName(arg.vm[1])).ip # Nil
           /\ ret.annotations[MacKey(defaultNetworkAnnotation)]
                = LastAnswerFor(DefaultIPName(arg.vm[1])).ip[1].mac
           /\ ret.annotations[IpKey(defaultNetworkAnnotation)]
                = ExpectedIPs(LastAnswerFor(DefaultIPName(arg.vm[1])).ip[1])

\* GetIPsForVM returned the first version of the default network's record
\* for one entry and, the record rewritten meanwhile, the second version for
\* a later entry.
C19_Witness ==
    /\ op = "GetIPsForVM"
    /\ HasTemplate(arg.vm)
    /\ Succeeded
    /\ Len(ret.ips) = 2
    /\ ret.ips[1] = IPResource(DefaultIPName(arg.vm), 1)
    /\ ret.ips[2] = IPResource(DefaultIPName(arg.vm), 2)

(***************************************************************************)
(* Claims about the order of the steps                                     *)
(***************************************************************************)
\* The network name of the declaration is not <namespace>/<name>.
MalformedName(network) ==
    IsMultus(network) /\ Cardinality(Slashes(network.multus[1].networkName)) # 1

\* The multus network of the declaration is of another namespace than the
\* VM's.
OtherNamespace(vm, network) ==
    /\ IsMultus(network)
    /\ SubSeq(network.multus[1].networkName, 1, Len(vm.namespace) + 1)
         # vm.namespace \o <<"/">>

\* The failure of the grammar on the declaration, "none" when it has none.
GrammarFailureOf(vm, network) ==
    IF MalformedName(network) THEN "MalformedNetworkName"
    ELSE IF vm.name = <<>> \/ vm.namespace = <<>> THEN "EmptyIdentity"
    ELSE IF OtherNamespace(vm, network) THEN "NamespaceMismatch"
    ELSE "none"

CallsOf(kind) == {i \in 1..Len(ret.calls) : ret.calls[i].call = kind}

\* The lookups the call went through: the Gets the store answered with a
\* record.
Completed == Cardinality({k \in CallsOf("Get") : answers[k].ok})

\* The failure of the lookup of the declaration that comes after m lookups,
\* "none" when it resolves: the network name is converted first, then the
\* client is built, then the identifier is derived, then the record is
\* fetched.
FailureOf(vm, network, m) ==
    IF MalformedName(network) THEN "MalformedNetworkName"
    ELSE IF ~answers[2 * m + 1].ok THEN "StoreUnavailable"
    ELSE IF GrammarFailureOf(vm, network) # "none" THEN GrammarFailureOf(vm, network)
    ELSE IF ~answers[2 * m + 2].ok THEN "RecordNotFound"
    ELSE "none"

\* C20: within one resolution the first failing step ends the call: the call
\* returns the error of that step and no entry; the declarations before it
\* each had their client built and their record fetched, the failing step
\* got as far as its failure and no further, no call is issued after one
\* that failed, and no Get is issued twice in a row.
C20_FirstFailureEndsTheCall ==
    (/\ op = "GetIPsForVM"
     /\ HasTemplate(arg.vm)
     /\ NetworksOf(arg.vm) # <<>>
     /\ IsErr(ret.err)) =>
        /\ ret.ips = <<>>
        /\ ret.nads = <<>>
        /\ Len(answers) = Len(ret.calls)
        /\ \A k \in 1..(Len(answers) - 1) : answers[k].ok
        /\ Len(ret.calls) - 2 * Completed \in {0, 1, 2}
        /\ \A i \in 1..Completed :
               /\ ret.calls[2 * i - 1] = ClientCall
               /\ ret.calls[2 * i].call = "Get"
               /\ i <= Len(NetworksOf(arg.vm)) =>
                      ret.calls[2 * i]
                        = GetCall(ExpectedIPName(arg.vm, NetworksOf(arg.vm)[i]))
        /\ Completed < Len(NetworksOf(arg.vm)) =>
               Carries(ret.err, FailureOf(arg.vm, NetworksOf(arg.vm)[Completed + 1],
                                          Completed))
        /\ Completed = Len(NetworksOf(arg.vm)) =>
               /\ ImplicitDefault(arg.vm)
               /\ Carries(ret.err, "DefaultNetworkFailed")
        /\ Carries(ret.err, "MalformedNetworkName") =>
               Len(ret.calls) = 2 * Completed
        /\ Carries(ret.err, "RecordNotFound") =>
               /\ Len(ret.calls) = 2 * Completed + 2
               /\ ret.calls[Len(ret.calls)].call = "Get"
               /\ ~answers[Len(ret.calls)].ok
        /\ (~Carries(ret.err, "MalformedNetworkName")
              /\ ~Carries(ret.err, "RecordNotFound")) =>
               /\ Len(ret.calls) = 2 * Completed + 1
               /\ ret.calls[Len(ret.calls)] = ClientCall

\* GetIPsForVM failed on the first of two declarations, a record the store
\* does not hold, while the store held the record of the second.
C20_Witness ==
    /\ op = "GetIPsForVM"
    /\ HasTemplate(arg.vm)
    /\ Len(NetworksOf(arg.vm)) = 2
    /\ Completed = 0
    /\ Carries(ret.err, "RecordNotFound")
    /\ Len(ret.calls) = 2
    /\ GrammarFailureOf(arg.vm, NetworksOf(arg.vm)[2]) = "none"
    /\ ExpectedIPName(arg.vm, NetworksOf(arg.vm)[2]) \in DOMAIN store

(***************************************************************************)
(* Claims about the shape of the result                                    *)
(***************************************************************************)
PairwiseDistinct(seq) ==
    \A i \in 1..Len(seq) : \A j \in 1..Len(seq) : i # j => seq[i] # seq[j]

\* The list declares the pod network at most once and no multus network
\* name twice.
DistinctDeclarations(vm) ==
    \A i \in 1..Len(NetworksOf(vm)) : \A j \in 1..Len(NetworksOf(vm)) :
        i # j =>
            /\ ~(IsPod(NetworksOf(vm)[i]) /\ IsPod(NetworksOf(vm)[j]))
            /\ (IsMultus(NetworksOf(vm)[i]) /\ IsMultus(NetworksOf(vm)[j])) =>
                   NetworksOf(vm)[i].multus[1].networkName
                     # NetworksOf(vm)[j].multus[1].networkName

\* C21 as stated: in every successful result of GetIPsForVM the references
\* are pairwise distinct, whatever the declaration list, and the merged
\* annotations have exactly two keys per result entry.
C21_ReferencesDistinct ==
    /\ (op = "GetIPsForVM" /\ HasTemplate(arg.vm) /\ Succeeded) =>
           PairwiseDistinct(ret.nads)
    /\ (op = "GetKubeovnAnnotationsForVM" /\ arg.vm # Nil /\ Succeeded) =>
           Cardinality(DOMAIN ret.annotations) = 2 * NumResolved

\* C21 amended: the same for the declaration lists that declare the pod
\* network at most once and no multus network name twice.
C21_ReferencesDistinctWhenDeclarationsAre ==
    /\ (/\ op = "GetIPsForVM"
        /\ HasTemplate(arg.vm)
        /\ DistinctDeclarations(arg.vm)
        /\ Succeeded) =>
           PairwiseDistinct(ret.nads)
    /\ (/\ op = "GetKubeovnAnnotationsForVM"
        /\ arg.vm # Nil
        /\ Succeeded
        /\ DistinctDeclarations(arg.vm[1])) =>
           Cardinality(DOMAIN ret.annotations) = 2 * NumResolved

\* GetKubeovnAnnotationsForVM returned the six keys of two multus networks
\* and the implicit default network.
C21_Witness ==
    /\ op = "GetKubeovnAnnotationsForVM"
    /\ arg.vm # Nil
    /\ Succeeded
    /\ DistinctDeclarations(arg.vm[1])
    /\ Len(NetworksOf(arg.vm[1])) = 2
    /\ Cardinality(DOMAIN ret.annotations) = 6

(***************************************************************************)
(* Claims about the checks of the backup item action                       *)
(***************************************************************************)
\* C22: Execute called with a nil backup returns an error and no item,
\* before the safety check is run or anything is asked of the cluster.
C22_NilBackupRejected ==
    (op = "Execute" /\ arg.backup = Nil) =>
        /\ ret.err = NewErr("BackupNil")
        /\ ret.item = Nil
        /\ ret.calls = <<>>
        /\ ~ret.panic

\* Execute was given no backup and a running VM.
C22_Witness ==
    /\ op = "Execute"
    /\ arg.backup = Nil
    /\ arg.item.status = "Running"
    /\ IsErr(ret.err)

\* C23: a successful GetIPsForVM result has an implicitly appended
\* default-network entry, one entry more than the list has declarations, if
\* and only if the list is empty or declares neither the pod network nor a
\* default-flagged multus network, wherever in the list such a declaration
\* stands; the entry is then the last one, with the reference
\* ovn.kubernetes.io and the record of <vmName>.<vmNamespace>, fetched as for
\* a pod-network declaration.
C23_ImplicitDefaultIff ==
    (op = "GetIPsForVM" /\ HasTemplate(arg.vm) /\ Succeeded) =>
        /\ Len(ret.nads) = Len(ret.ips)
        /\ ImplicitDefault(arg.vm) =>
               /\ Len(ret.nads) = Len(NetworksOf(arg.vm)) + 1
               /\ EntryIsDefault(arg.vm, Len(ret.nads))
               /\ ret.calls[Len(ret.calls)] = GetCall(DefaultIPName(arg.vm))
        /\ ~ImplicitDefault(arg.vm) =>
               /\ Len(ret.nads) = Len(NetworksOf(arg.vm))
               /\ \A i \in 1..Len(ret.nads) : EntryIsDeclaration(arg.vm, i)

\* GetIPsForVM succeeded, without implicit default network, on a list whose
\* default-flagged multus network is followed by another multus network,
\* the store holding the default network's record.
C23_Witness ==
    /\ op = "GetIPsForVM"
    /\ HasTemplate(arg.vm)
    /\ Succeeded
    /\ Len(NetworksOf(arg.vm)) = 2
    /\ IsDefaultMultus(NetworksOf(arg.vm)[1])
    /\ IsMultus(NetworksOf(arg.vm)[2])
    /\ ~IsDefaultMultus(NetworksOf(arg.vm)[2])
    /\ DefaultIPName(arg.vm) \in DOMAIN store
    /\ Len(ret.nads) = 2

\* C24: whenever GetIPsForVM returns an error, the list of records and the
\* list of references it returns are both empty, whatever the declaration
\* list, the empty one included.
C24_NoListsWithAnError ==
    (op = "GetIPsForVM" /\ HasTemplate(arg.vm) /\ IsErr(ret.err)) =>
        /\ ret.ips = <<>>
        /\ ret.nads = <<>>

\* C25: during a successful resolution the lookups are issued one after the
\* other, each after building its client: one per declaration, in
\* declaration order, and a last one when the implicit default network is
\* injected; there are as many result entries as lookups, and the i-th
\* lookup asks for the identifier of the i-th entry's record.
C25_OneLookupPerEntry ==
    (op = "GetIPsForVM" /\ HasTemplate(arg.vm) /\ Succeeded) =>
        /\ Len(ret.calls) = 2 * Len(ret.ips)
        /\ Len(ret.ips)
             = Len(NetworksOf(arg.vm)) + (IF ImplicitDefault(arg.vm) THEN 1 ELSE 0)
        /\ \A i \in 1..Len(ret.ips) :
               /\ ret.calls[2 * i - 1] = ClientCall
               /\ ret.calls[2 * i] = GetCall(ret.ips[i].name)
        /\ \A i \in 1..Len(NetworksOf(arg.vm)) :
               ret.calls[2 * i] = GetCall(ExpectedIPName(arg.vm, NetworksOf(arg.vm)[i]))
        /\ ImplicitDefault(arg.vm) =>
               ret.calls[Len(ret.calls)] = GetCall(DefaultIPName(arg.vm))

\* GetIPsForVM succeeded with three lookups: two different multus networks
\* and the implicit default network.
C25_Witness ==
    /\ op = "GetIPsForVM"
    /\ HasTemplate(arg.vm)
    /\ Succeeded
    /\ Len(NetworksOf(arg.vm)) = 2
    /\ Len(ret.calls) = 6
    /\ ret.calls[2] # ret.calls[4]

\* The list has two or more multus declarations flagged as default, and no
\* pod-network declaration.
SeveralDefaultMultusAndNoPod(vm) ==
    /\ Cardinality({i \in 1..Len(NetworksOf(vm)) :
                       IsDefaultMultus(NetworksOf(vm)[i])}) >= 2
    /\ \A i \in 1..Len(NetworksOf(vm)) :
           IsMultus(NetworksOf(vm)[i]) /\ ~IsPod(NetworksOf(vm)[i])

\* C26: a list with two or more default-flagged multus declarations and no
\* pod-network declaration is accepted: when every declaration is well
\* formed and every lookup is answered, GetIPsForVM succeeds with one entry per multus declaration, in
\* declaration order, and no default-network entry.
C26_SeveralDefaultMultusAccepted ==
    (/\ op = "GetIPsForVM"
     /\ HasTemplate(arg.vm)
     /\ SeveralDefaultMultusAndNoPod(arg.vm)
     /\ \A i \in 1..Len(NetworksOf(arg.vm)) :
            GrammarFailureOf(arg.vm, NetworksOf(arg.vm)[i]) = "none"
     /\ \A k \in 1..Len(answers) : answers[k].ok) =>
        /\ Succeeded
        /\ Len(ret.nads) = Len(NetworksOf(arg.vm))
        /\ Len(ret.ips) = Len(NetworksOf(arg.vm))
        /\ \A i \in 1..Len(NetworksOf(arg.vm)) : EntryIsDeclaration(arg.vm, i)
        /\ DefaultEntries = {}

\* GetIPsForVM succeeded on two different default-flagged multus networks.
C26_Witness ==
    /\ op = "GetIPsForVM"
    /\ HasTemplate(arg.vm)
    /\ SeveralDefaultMultusAndNoPod(arg.vm)
    /\ NetworksOf(arg.vm)[1] # NetworksOf(arg.vm)[2]
    /\ Succeeded
    /\ Len(ret.nads) = 2

IsRunning(vm) == vm.status = "Starting" \/ vm.status = "Running"

\* The backup leaves pods out while it includes persistentvolumeclaims.
PodsOutPvcIn(backup) == ~backup.podsIn /\ backup.pvcIn

\* The VMI carries the Velero exclude label with value true.
LabelExcludes(excluded) == ~IsErr(excluded.err) /\ excluded.value

\* C27 as stated: Execute rejects the VM as not safe to back up exactly when
\* its status is Starting or Running and the backup does not include
\* virtualmachineinstances, or the VMI carries the exclude label, or the
\* backup leaves pods out while including persistentvolumeclaims; a VM in
\* another status passes the check without the label being looked up.
C27_NotSafeExactlyWhen ==
    (op = "Execute" /\ arg.backup # Nil) =>
        /\ (ret.err = NewErr("NotSafe")) <=>
               /\ IsRunning(arg.item)
               /\ \/ ~arg.backup[1].vmiIn
                  \/ LabelExcludes(arg.excluded)
                  \/ PodsOutPvcIn(arg.backup[1])
        /\ ~IsRunning(arg.item) => ret.calls = <<>>

\* C27 amended: Execute rejects the VM as not safe to back up exactly when
\* its status is Starting or Running and either the backup does not include
\* virtualmachineinstances, or the lookup of the VMI succeeds and the VMI
\* carries the exclude label or the backup leaves pods out while including
\* persistentvolumeclaims; when the backup includes virtualmachineinstances
\* and the lookup of the VMI fails, Execute returns the error of the lookup;
\* a VM in another status passes the check without the label being looked
\* up, and so does no lookup happen when virtualmachineinstances are left
\* out.
C27_NotSafeUnlessLookupFails ==
    (op = "Execute" /\ arg.backup # Nil) =>
        /\ (ret.err = NewErr("NotSafe")) <=>
               /\ IsRunning(arg.item)
               /\ \/ ~arg.backup[1].vmiIn
                  \/ /\ ~IsErr(arg.excluded.err)
                     /\ (arg.excluded.value \/ PodsOutPvcIn(arg.backup[1]))
        /\ (IsRunning(arg.item) /\ arg.backup[1].vmiIn /\ IsErr(arg.excluded.err)) =>
               /\ ret.err = Wrap("WithStack", Wrap("WithStack", arg.excluded.err))
               /\ ret.item = Nil
        /\ ~IsRunning(arg.item) => ret.calls = <<>>
        /\ (IsRunning(arg.item) /\ ~arg.backup[1].vmiIn) => ret.calls = <<>>
        /\ (IsRunning(arg.item) /\ arg.backup[1].vmiIn) => ret.calls = <<LabelCall>>
        /\ ret.err = NewErr("NotSafe") => ret.item = Nil

\* Execute rejected a running VM whose VMI carries no exclude label, for a
\* backup with virtualmachineinstances and persistentvolumeclaims but no
\* pods.
C27_Witness ==
    /\ op = "Execute"
    /\ arg.backup # Nil
    /\ arg.item.status = "Running"
    /\ arg.backup[1].vmiIn
    /\ PodsOutPvcIn(arg.backup[1])
    /\ arg.excluded = [value |-> FALSE, err |-> NoErr]
    /\ ret.err = NewErr("NotSafe")

(***************************************************************************)
(* Claims drawn from the tests of the naming grammar                       *)
(***************************************************************************)
\* "<vm>.<ns>.<nad>.<ns>"
NameWithoutOvn(vmName, vmNamespace, name) ==
    vmName \o <<".">> \o vmNamespace \o <<".">> \o name \o <<".">> \o vmNamespace

\* The call was given the reference <nad>.<ns>.ovn.kubernetes.io of a NAD of
\* the namespace of the VM, and the name of the VM.
WellFormedNadOfVM ==
    /\ arg.vmName # <<>>
    /\ Component(arg.vmNamespace)
    /\ \E n \in ComponentsIn(NadNames) :
           arg.nadAnnotation = SecondaryRef(n, arg.vmNamespace)

NadOfCall ==
    CHOOSE n \in ComponentsIn(NadNames) :
        arg.nadAnnotation = SecondaryRef(n, arg.vmNamespace)

\* C28: for a well-formed NAD annotation <nad>.<ns>.ovn.kubernetes.io and a
\* VM <vm> of namespace <ns>, getIPCRNameForVM returns <vm>.<ns>.<nad>.<ns>,
\* and GetIPForVM fetches the IP record stored under that name.
C28_NameWithoutOvnSuffix ==
    /\ (op = "getIPCRNameForVM" /\ WellFormedNadOfVM) =>
           /\ ~IsErr(ret.err)
           /\ ret.name = NameWithoutOvn(arg.vmName, arg.vmNamespace, NadOfCall)
    /\ (op = "GetIPForVM" /\ WellFormedNadOfVM /\ answers[1].ok) =>
           ret.calls = <<ClientCall,
                         GetCall(NameWithoutOvn(arg.vmName, arg.vmNamespace, NadOfCall))>>

(***************************************************************************)
(* Records and references run in parallel                                  *)
(***************************************************************************)
\* C29: on every successful return of GetIPsForVM the records and the
\* references have the same length and the i-th record is the one the store
\* answered the Get of the identifier derived from the i-th reference with;
\* GetNetInfoForVm builds its i-th entry from the i-th reference and that
\* record, and never indexes the references out of range.
C29_RecordsParallelToReferences ==
    /\ (op = "GetIPsForVM" /\ Succeeded) =>
           /\ Len(ret.ips) = Len(ret.nads)
           /\ Len(answers) = 2 * Len(ret.ips)
           /\ \A i \in 1..Len(ret.ips) :
                  /\ ret.calls[2 * i]
                       = GetCall(ClaimedIPName(ret.nads[i], arg.vm.name,
                                               arg.vm.namespace))
                  /\ answers[2 * i].ip = Ptr(ret.ips[i])
    /\ (op = "GetNetInfoForVm" /\ HasTemplate(arg.vm)) => ~ret.panic
    /\ (op = "GetNetInfoForVm" /\ Succeeded) =>
           /\ 2 * Len(ret.netInfos) = Len(ret.calls)
           /\ Len(answers) = Len(ret.calls)
           /\ \A i \in 1..Len(ret.netInfos) :
                  /\ ret.calls[2 * i]
                       = GetCall(ClaimedIPName(ret.netInfos[i].NADAnnotation,
                                               arg.vm.name, arg.vm.namespace))
                  /\ answers[2 * i].ip # Nil
                  /\ ret.netInfos[i]
                       = IPToNetInfo(ret.netInfos[i].NADAnnotation,
                                     answers[2 * i].ip[1])

\* The pod network and a secondary network, both found: two entries whose
\* references and addresses differ.
C29_Witness ==
    /\ op = "GetNetInfoForVm"
    /\ Succeeded
    /\ Len(ret.netInfos) = 2
    /\ ret.netInfos[1].NADAnnotation = defaultNetworkAnnotation
    /\ ret.netInfos[2].NADAnnotation # defaultNetworkAnnotation
    /\ ret.netInfos[1].MAC # ret.netInfos[2].MAC

\* C30: for every non-nil VM, the one without template included,
\* GetKubeovnAnnotationsForVM returns an annotation map or an error and
\* never aborts on a nil dereference.
C30_NeverAborts ==
    (op = "GetKubeovnAnnotationsForVM" /\ arg.vm # Nil) =>
        /\ ~ret.panic
        /\ IsErr(ret.err) \/ ~ret.isNil

====
